---- MODULE Spec2Model ----
(***************************************************************************)
(* Model of the restaurant search pipeline of where-should-i-eat:          *)
(*   - the POST /api/search handler (src/app/api/search/route.ts),         *)
(*   - the scraping orchestrator scrapeAllPlatforms and BaseScraper,       *)
(*   - the API orchestrator fetchAllPlatformReviews (parallel, with        *)
(*     withTimeout) and its sequential, rate-limited variant,              *)
(*   - the API source adapters searchYelp/searchFoursquare/                *)
(*     searchTripAdvisor,                                                  *)
(*   - the ranking filters and sorts,                                      *)
(*   - the open-status resolvers isOpenAtTime and checkIfOpen, the hours   *)
(*     check of the demo route, and getPlannedDate.                        *)
(* Ratings are kept in tenths of a star (45 is 4.5), value scores in       *)
(* hundredths.                                                             *)
(***************************************************************************)
EXTENDS Integers, Sequences, FiniteSets, TLC

VARIABLES
    req,        \* POST: the request body (or the marker of an unparsable one)
    pc,         \* POST: position of the handler
    response,   \* POST: the HTTP response, once produced
    placesCalls,\* POST: number of invocations of searchNearbyPlaces
    places,     \* POST: the venues searchNearbyPlaces returned
    fa,         \* per venue: the fetchAllPlatformReviews call made for it
    scr,        \* per platform: the state of its scraper closure and its BaseScraper
    results,    \* scrapeAllPlatforms: the shared results array
    errors,     \* scrapeAllPlatforms: the shared errors record
    sa,         \* scrapeAllPlatforms: state of the await Promise.all
    sq,         \* the sequential, rate-limited fetchAllPlatformReviews
    rk,         \* a run of one of the ranking functions
    ad,         \* a call of one source adapter
    fn          \* a call of one of the open-status or daypart functions

vars == <<req, pc, response, placesCalls, places, fa, scr, results, errors, sa, sq, rk, ad, fn>>

----------------------------------------------------------------------------
(* Bounds *)

MaxPlatforms == 2

MaxPlaces == 1

----------------------------------------------------------------------------
(* Generic helpers *)

Range(s) == {s[i] : i \in 1..Len(s)}

\* Sequences without repetition, of length at most n, over the set S.
DistinctSeqs(S, n) ==
    {s \in UNION {[1..k -> S] : k \in 0..n} : \A i, j \in 1..Len(s) : i # j => s[i] # s[j]}

----------------------------------------------------------------------------
(* Types: src/types/index.ts *)

Platform == {"google", "yelp", "tripadvisor", "foursquare", "zomato"}

\* The review a source returns for the venue, here one fixed observation per source.
ReviewOf(p) == [platform |-> p, rating |-> 45, reviewCount |-> 100]

\* The number 0 / 0 and parseFloat of a text that is no number give, as a
\* rating or a score.
NaN == -2

\* An undefined optional number (valueScore, travelTimeMin).
Undefined == -1

----------------------------------------------------------------------------
(* scrapeAllPlatforms: src/lib/scrapers/index.ts, BaseScraper: base.ts *)

\* scraperMap: the platforms a scraper exists for.
ScraperMap == {"google", "yelp", "tripadvisor", "foursquare"}

\* Platforms a request may name in this model: two with a scraper, one without.
PlatformPool == {"google", "yelp", "zomato"}

NoErrors == [q \in {} |-> ""]

SetError(errs, p, msg) ==
    [q \in (DOMAIN errs) \cup {p} |-> IF q = p THEN msg ELSE errs[q]]

\* BaseScraper.scrape.  In the try block parseResults gives a review ("data"),
\* a review whose rating is NaN ("nan": parseFloat of a ratingValue that is no
\* number, which the scrapers' test rating === null lets through), or null
\* ("nodata"), or init, goto, waitForTimeout or parseResults throws.  Whatever
\* parseResults gives that is not falsy is returned with success=true; the
\* catch block turns every exception into success=false.
Scrape(p, outcome) ==
    LET Try ==
            CASE outcome = "data"   -> [kind |-> "result", success |-> TRUE, data |-> ReviewOf(p), error |-> ""]
              [] outcome = "nan"    -> [kind |-> "result", success |-> TRUE, data |-> [ReviewOf(p) EXCEPT !.rating = NaN], error |-> ""]
              [] outcome = "nodata" -> [kind |-> "result", success |-> FALSE, data |-> ReviewOf(p), error |-> "No results found"]
              [] OTHER              -> [kind |-> "rejected", success |-> FALSE, data |-> ReviewOf(p), error |-> "exception"]
    IN \* catch (error) { return { success: false, error: ... }; }
       IF Try.kind = "rejected" THEN [Try EXCEPT !.kind = "result"] ELSE Try

\* The try/catch of the closure around scraper.scrape: the new results array.
RecordResults(res, r) ==
    IF r.kind = "result" /\ r.success THEN Append(res, r.data) ELSE res

\* The try/catch of the closure around scraper.scrape: the new errors record.
RecordErrors(errs, p, r) ==
    IF r.kind = "result" /\ r.success THEN errs
    ELSE IF r.kind = "result" THEN SetError(errs, p, IF r.error # "" THEN r.error ELSE "Unknown error")
    ELSE SetError(errs, p, r.error)

\* Promise.all over the closures: settled as soon as one rejects, otherwise
\* once all have resolved.
PromiseAll(s, ps) ==
    IF \E p \in ps : s[p].st = "rejected" THEN "rejected"
    ELSE IF \A p \in ps : s[p].st = "resolved" THEN "returned"
    ELSE "pending"

----------------------------------------------------------------------------
(* API source adapters: src/lib/apis/yelp.ts, foursquare.ts, tripadvisor.ts *)

\* What an adapter call ends with: a review, null (Absent), or a rejection.
Absent == [platform |-> "null", rating |-> 0, reviewCount |-> 0]
Thrown == [platform |-> "throw", rating |-> 0, reviewCount |-> 0]

Api == {"yelp", "foursquare", "tripadvisor"}

\* The behaviour of the network and of the remote service during one call.
\* rating and count are what the JSON body carries, typed as the adapters'
\* interfaces declare them: YelpBusiness.rating is a number, which searchYelp
\* hands on as it is; FoursquarePlace.rating is optional; the details of
\* TripAdvisor carry rating and num_reviews as strings.
YelpEnv ==
    [key : BOOLEAN, fetch : {"throws", "429", "500", "ok"},
     json : {"throws", "nobusinesses", "empty", "one"}]

FoursquareEnv ==
    [key : BOOLEAN, fetch : {"throws", "notok", "ok"},
     json : {"throws", "noresults", "empty", "one"}, rating : {"num", "missing"}]

TripAdvisorEnv ==
    [key : BOOLEAN, search : {"throws", "notok", "ok"},
     searchJson : {"throws", "nodata", "empty", "one"},
     details : {"throws", "notok", "ok"}, detailsJson : {"throws", "ok"},
     rating : {"num", "nan", "zero"}, numReviews : {"num", "nan"}]

\* catch (error) { return null; }
Catch(x) == IF x = Thrown THEN Absent ELSE x

\* The body of the try block of searchYelp.
YelpTry(e) ==
    IF e.fetch = "throws" THEN Thrown
    ELSE IF e.fetch # "ok" THEN Absent
    ELSE IF e.json \in {"throws", "nobusinesses"} THEN Thrown
    ELSE IF e.json = "empty" THEN Absent
    ELSE ReviewOf("yelp")

SearchYelp(e) == IF ~e.key THEN Absent ELSE Catch(YelpTry(e))

\* The body of the try block of searchFoursquare; a place without a rating is
\* returned with rating 0.
FoursquareTry(e) ==
    IF e.fetch = "throws" THEN Thrown
    ELSE IF e.fetch # "ok" THEN Absent
    ELSE IF e.json = "throws" THEN Thrown
    ELSE IF e.json \in {"noresults", "empty"} THEN Absent
    ELSE [platform |-> "foursquare",
          rating |-> IF e.rating = "num" THEN ReviewOf("foursquare").rating ELSE 0,
          reviewCount |-> ReviewOf("foursquare").reviewCount]

SearchFoursquare(e) == IF ~e.key THEN Absent ELSE Catch(FoursquareTry(e))

\* The body of the try block of searchTripAdvisor: location search, details,
\* parseFloat of the rating and parseInt of the review count.
TripAdvisorTry(e) ==
    IF e.search = "throws" THEN Thrown
    ELSE IF e.search # "ok" THEN Absent
    ELSE IF e.searchJson = "throws" THEN Thrown
    ELSE IF e.searchJson \in {"nodata", "empty"} THEN Absent
    ELSE IF e.details = "throws" THEN Thrown
    ELSE IF e.details # "ok" THEN Absent
    ELSE IF e.detailsJson = "throws" THEN Thrown
    ELSE IF e.rating \in {"nan", "zero"} THEN Absent
    ELSE [platform |-> "tripadvisor",
          rating |-> ReviewOf("tripadvisor").rating,
          reviewCount |-> IF e.numReviews = "nan" THEN 0
                          ELSE ReviewOf("tripadvisor").reviewCount]

SearchTripAdvisor(e) == IF ~e.key THEN Absent ELSE Catch(TripAdvisorTry(e))

EnvOf(a) ==
    CASE a = "yelp" -> YelpEnv
      [] a = "foursquare" -> FoursquareEnv
      [] OTHER -> TripAdvisorEnv

Search(a, e) ==
    CASE a = "yelp" -> SearchYelp(e)
      [] a = "foursquare" -> SearchFoursquare(e)
      [] OTHER -> SearchTripAdvisor(e)

\* The call met an error the adapter logs (console.error): no API key, a
\* network exception, a non-OK status, a body that cannot be read.  A venue
\* that is not found, or has no usable rating, is not among them.
SourceError(a, e) ==
    CASE a = "yelp" -> ~e.key \/ e.fetch # "ok" \/ e.json \in {"throws", "nobusinesses"}
      [] a = "foursquare" -> ~e.key \/ e.fetch # "ok" \/ e.json = "throws"
      [] OTHER -> \/ ~e.key \/ e.search # "ok" \/ e.searchJson = "throws"
                  \/ /\ e.searchJson = "one"
                     /\ e.details # "ok" \/ e.detailsJson = "throws"

\* Everything a call of the adapter can end with: the value its promise
\* settles with, and whether the call met an error.
YelpOutcomes == {[val |-> SearchYelp(e), error |-> SourceError("yelp", e)] : e \in YelpEnv}

FoursquareOutcomes ==
    {[val |-> SearchFoursquare(e), error |-> SourceError("foursquare", e)] : e \in FoursquareEnv}

TripAdvisorOutcomes ==
    {[val |-> SearchTripAdvisor(e), error |-> SourceError("tripadvisor", e)] : e \in TripAdvisorEnv}

OutcomesOf(a) ==
    CASE a = "yelp" -> YelpOutcomes
      [] a = "foursquare" -> FoursquareOutcomes
      [] OTHER -> TripAdvisorOutcomes

\* The failure modes of a call: no API key, a network exception, a non-OK
\* status, a body that cannot be read, an empty result list, a venue without
\* a usable rating.  What is left is a found venue whose body carries a rating.
FailureMode(a, e) ==
    CASE a = "yelp" -> ~e.key \/ e.fetch # "ok" \/ e.json # "one"
      [] a = "foursquare" -> ~e.key \/ e.fetch # "ok" \/ e.json # "one" \/ e.rating # "num"
      [] OTHER -> \/ ~e.key \/ e.search # "ok" \/ e.searchJson # "one"
                  \/ e.details # "ok" \/ e.detailsJson # "ok" \/ e.rating # "num"

----------------------------------------------------------------------------
(* Aggregation: src/lib/scoring.ts.  Ratings in tenths, scores in hundredths. *)

\* IEEE-754 doubles, as JavaScript numbers are.  A finite double x >= 0 is the
\* integer x * 2^75 written in 7 digits of base 2^15, lowest digit first
\* (digits 6 and 7 are the integer part); it has at most 53 significant
\* bits.  This covers 0 and the doubles from 2^-22 up to 2^30, and the
\* differences of two of them; a positive product below 2^-75 is taken as 0.

\* NaN, the value of 0 / 0; every operation on it gives it again.
NotANumber == <<-1, -1, -1, -1, -1, -1, -1>>

\* a + b for integers of as many digits: a carry enters digit i + 1 when
\* some digit at or below i overflows and every digit between is full.
LimbAdd(a, b) ==
    LET carry(i) == \E j \in 1..i : /\ a[j] + b[j] >= 32768
                                    /\ \A m \in (j + 1)..i : a[m] + b[m] >= 32767
    IN SubSeq([i \in 1..Len(a) |->
                 (a[i] + b[i] + IF carry(i - 1) THEN 1 ELSE 0) % 32768], 1, Len(a))

\* a - b for a >= b.
LimbSub(a, b) ==
    LET borrow(i) == \E j \in 1..i : /\ a[j] < b[j]
                                     /\ \A m \in (j + 1)..i : a[m] <= b[m]
    IN SubSeq([i \in 1..Len(a) |->
                 (a[i] - b[i] - (IF borrow(i - 1) THEN 1 ELSE 0) + 32768) % 32768],
              1, Len(a))

\* a * n in as many digits as a has, for an integer n >= 0 and entries of a
\* with a[i] * n < 2^30 (digits and n <= 2^15, or sums of digits and n = 1).
LimbScale(a, n) ==
    LimbAdd(SubSeq([i \in 1..Len(a) |-> (a[i] * n) % 32768], 1, Len(a)),
            SubSeq([i \in 1..Len(a) |-> IF i = 1 THEN 0 ELSE (a[i - 1] * n) \div 32768],
                   1, Len(a)))

\* a < b
LimbLess(a, b) ==
    \E i \in 1..Len(a) : a[i] < b[i] /\ \A j \in (i + 1)..Len(a) : a[j] = b[j]

\* Rounding to the nearest double, ties to the even mantissa; sticky says
\* that the exact value is above a by less than 2^-75.
Round53(a, sticky) ==
    LET nonzero == {i \in 1..7 : a[i] # 0}
        top == CHOOSE i \in nonzero : \A j \in nonzero : j <= i
        Bits(t) == 15 * (t - 1) + (CHOOSE n \in 1..15 : a[t] \div (2 ^ (n - 1)) = 1)
        Bit(j) == (a[j \div 15 + 1] \div (2 ^ (j % 15))) % 2
        \* k is the number of bits to drop
        Nearest(k) ==
            LET \* some bit below k - 1 is set
                below == \/ \E i \in 1..((k - 1) \div 15) : a[i] # 0
                         \/ a[(k - 1) \div 15 + 1] % (2 ^ ((k - 1) % 15)) # 0
                up == Bit(k - 1) = 1 /\ (sticky \/ below \/ Bit(k) = 1)
                trunc == SubSeq([i \in 1..7 |->
                                   IF 15 * i <= k THEN 0
                                   ELSE IF 15 * (i - 1) >= k THEN a[i]
                                   ELSE (a[i] \div (2 ^ (k - 15 * (i - 1))))
                                           * (2 ^ (k - 15 * (i - 1)))], 1, 7)
                ulp == SubSeq([i \in 1..7 |-> IF i = k \div 15 + 1 THEN 2 ^ (k % 15) ELSE 0],
                              1, 7)
            IN IF k <= 0 THEN a
               ELSE IF up THEN LimbAdd(trunc, ulp) ELSE trunc
    IN IF nonzero = {} THEN a ELSE Nearest(Bits(top) - 53)

\* The double of an integer 0 <= n < 2^30.
ToDouble(n) == <<0, 0, 0, 0, 0, n % 32768, n \div 32768>>

\* x + y
FAdd(x, y) ==
    IF x = NotANumber \/ y = NotANumber THEN NotANumber
    ELSE Round53(LimbAdd(x, y), FALSE)

\* |x - y|
FAbsDiff(x, y) ==
    IF x = NotANumber \/ y = NotANumber THEN NotANumber
    ELSE IF LimbLess(x, y) THEN Round53(LimbSub(y, x), FALSE)
    ELSE Round53(LimbSub(x, y), FALSE)

\* x * y: the exact product has 14 digits, the lowest 5 of them below 2^-75.
\* Column k collects the low halves of the digit products x[i] * y[k + 1 - i]
\* and the high halves of those of column k - 1.
FMul(x, y) ==
    LET Prod(i, k) == IF k - i \in 0..6 THEN x[i] * y[k + 1 - i] ELSE 0
        column[i \in 0..7, k \in 1..14] ==
            IF i = 0 THEN 0
            ELSE column[i - 1, k] + (Prod(i, k) % 32768) + (Prod(i, k - 1) \div 32768)
        product == LimbScale(SubSeq([k \in 1..14 |-> column[7, k]], 1, 14), 1)
    IN IF x = NotANumber \/ y = NotANumber THEN NotANumber
       ELSE Round53(SubSeq(product, 6, 12), \E i \in 1..5 : product[i] # 0)

\* The long division of dividend by divisor, both of 8 digits and the leading
\* digit of the divisor 2^14 or more, rounded: digit i of the dividend is
\* taken into the remainder r (d = -2), the next quotient digit d is estimated
\* from the two leading digits of r (d = -1) and lowered while it is too
\* large; q are the quotient digits above i.
LongDivide[i \in 1..13, r \in Seq(Int), q \in Seq(Int), d \in Int, dividend \in Seq(Int), divisor \in Seq(Int)] ==
    LET top == CHOOSE t \in 1..7 : divisor[t] # 0 /\ \A j \in (t + 1)..7 : divisor[j] = 0
        estimate == (r[top + 1] * 32768 + r[top]) \div divisor[top]
    IN IF d = -2
       THEN LongDivide[i, <<dividend[i]>> \o SubSeq(r, 1, 7), q, -1, dividend, divisor]
       ELSE IF d = -1
       THEN LongDivide[i, r, q, IF estimate > 32767 THEN 32767 ELSE estimate,
                       dividend, divisor]
       ELSE IF LimbLess(r, LimbScale(divisor, d))
       THEN LongDivide[i, r, q, d - 1, dividend, divisor]
       ELSE IF i > 1
       THEN LongDivide[i - 1, LimbSub(r, LimbScale(divisor, d)), <<d>> \o q, -2,
                       dividend, divisor]
       ELSE Round53(SubSeq(<<d>> \o q, 1, 7), r # LimbScale(divisor, d))

\* x / y: x * 2^75 divided by y, both scaled to bring the leading digit of y
\* to 2^14 or more; y is 0 only where x is 0 or NaN.
FDiv(x, y) ==
    LET nonzero == {i \in 1..7 : y[i] # 0}
        top == CHOOSE i \in nonzero : \A j \in nonzero : j <= i
        scale == 2 ^ (15 - (CHOOSE n \in 1..15 : y[top] \div (2 ^ (n - 1)) = 1))
    IN IF x = NotANumber \/ y = NotANumber \/ nonzero = {} THEN NotANumber
       ELSE LongDivide[13, <<0, 0, 0, 0, 0, 0, 0, 0>>, <<>>, -2,
                       LimbScale(<<0, 0, 0, 0, 0>> \o x \o <<0>>, scale),
                       LimbScale(y \o <<0>>, scale)]

\* Math.round(x): the nearest integer, a tie going up.
MathRound(x) == IF x = NotANumber THEN NaN ELSE x[6] + 32768 * x[7] + x[5] \div 16384

\* The double of a number given in tenths, as the literal 0.3 or a rating 4.7.
Tenths(r) == IF r \in {NaN, Undefined} THEN NotANumber ELSE FDiv(ToDouble(r), ToDouble(10))

\* reduce((acc, x) => acc + x, 0) over the doubles term[1..k]
RECURSIVE FSum(_, _)
FSum(term, k) == IF k = 0 THEN ToDouble(0) ELSE FAdd(FSum(term, k - 1), term[k])

RECURSIVE SumOver(_, _)
\* reduce((acc, x) => acc + x, 0) over the integers term[1..k] (review counts:
\* their sums are exact).
SumOver(term, k) == IF k = 0 THEN 0 ELSE SumOver(term, k - 1) + term[k]

DefaultPlatformWeights ==
    [p \in Platform |-> CASE p = "foursquare" -> 9 [] p = "zomato" -> 8 [] OTHER -> 10]

\* The default configuration of POST: bayesian_average, prior 3.5, C 10.
DefaultConfig ==
    [strategy |-> "bayesian_average", bayesianPrior |-> 35, bayesianMinReviews |-> 10,
     platformWeights |-> DefaultPlatformWeights]

\* simpleAverage, reviewCountWeighted and bayesianAverage return the score as
\* a double; reviews is not empty.
SimpleAverage(reviews) ==
    FDiv(FSum([i \in 1..Len(reviews) |-> Tenths(reviews[i].rating)], Len(reviews)),
         ToDouble(Len(reviews)))

ReviewCountWeighted(reviews) ==
    LET totalReviews == SumOver([i \in 1..Len(reviews) |-> reviews[i].reviewCount],
                                Len(reviews))
    IN IF totalReviews = 0 THEN SimpleAverage(reviews)
       ELSE FDiv(FSum([i \in 1..Len(reviews) |->
                         FMul(Tenths(reviews[i].rating), ToDouble(reviews[i].reviewCount))],
                      Len(reviews)),
                 ToDouble(totalReviews))

\* A pooled average: the prior's pseudo-count and all the reviews in one
\* quotient.
BayesianPooled(reviews, prior, minReviews) ==
    FDiv(FAdd(FMul(ToDouble(minReviews), Tenths(prior)),
              FSum([i \in 1..Len(reviews) |->
                      FMul(Tenths(reviews[i].rating), ToDouble(reviews[i].reviewCount))],
                   Len(reviews))),
         ToDouble(minReviews + SumOver([i \in 1..Len(reviews) |-> reviews[i].reviewCount],
                                       Len(reviews))))

\* The mean of the scores (C * prior + n * rating) / (C + n) of the signals.  A
\* signal with minReviews + n = 0 has the score 0 / 0, and so has the mean.
BayesianAverage(reviews, prior, minReviews) ==
    FDiv(FSum([i \in 1..Len(reviews) |->
                 FDiv(FAdd(FMul(ToDouble(minReviews), Tenths(prior)),
                           FMul(ToDouble(reviews[i].reviewCount),
                                Tenths(reviews[i].rating))),
                      ToDouble(minReviews + reviews[i].reviewCount))],
              Len(reviews)),
         ToDouble(Len(reviews)))

\* Math.log10(x), for the x the review counts of this model and their totals
\* give.
Log10(x) ==
   (
    1 :> <<0, 0, 0, 0, 0, 0, 0>> @@
    2 :> <<0, 32704, 20412, 4944, 9864, 0, 0>> @@
    3 :> <<0, 32576, 10218, 10134, 15634, 0, 0>> @@
    4 :> <<0, 32640, 8057, 9889, 19728, 0, 0>> @@
    5 :> <<0, 128, 12355, 27823, 22903, 0, 0>> @@
    6 :> <<0, 32512, 30631, 15078, 25498, 0, 0>> @@
    7 :> <<0, 8064, 30924, 5654, 27692, 0, 0>> @@
    8 :> <<0, 32512, 28470, 14833, 29592, 0, 0>> @@
    9 :> <<0, 32384, 20437, 20268, 31268, 0, 0>> @@
    1001 :> <<0, 24064, 4731, 7335, 14, 3, 0>> @@
    1002 :> <<0, 6144, 29480, 14204, 28, 3, 0>> @@
    1003 :> <<0, 1024, 6365, 20610, 42, 3, 0>> @@
    1004 :> <<0, 1536, 31255, 26551, 56, 3, 0>> @@
    1005 :> <<0, 11776, 3320, 32031, 70, 3, 0>> @@
    1006 :> <<0, 28672, 18248, 4280, 85, 3, 0>> @@
    1007 :> <<0, 21504, 7798, 8837, 99, 3, 0>> @@
    2001 :> <<0, 26624, 13989, 8670, 9871, 3, 0>> @@
    2002 :> <<0, 23552, 25144, 12279, 9878, 3, 0>> @@
    2003 :> <<0, 8192, 24921, 15772, 9885, 3, 0>> @@
    2004 :> <<0, 5632, 17125, 19149, 9892, 3, 0>> @@
    2005 :> <<0, 20480, 5556, 22410, 9899, 3, 0>> @@
    3001 :> <<0, 26624, 15094, 1708, 15639, 3, 0>> @@
    3002 :> <<0, 32256, 27217, 25998, 15643, 3, 0>> @@
    3003 :> <<0, 23552, 14950, 17469, 15648, 3, 0>> @@
    4001 :> <<0, 19456, 23367, 28150, 19731, 3, 0>> @@
    5001 :> <<0, 21504, 2677, 22774, 22906, 3, 0>> @@
    6001 :> <<0, 21504, 15850, 27256, 25500, 3, 0>>)[x]

\* confidenceWeighted: the weight of a signal is log10(n + 1) + 1.
ConfidenceWeighted(reviews) ==
    LET weights == [i \in 1..Len(reviews) |->
                      FAdd(Log10(reviews[i].reviewCount + 1), ToDouble(1))]
    IN FDiv(FSum([i \in 1..Len(reviews) |->
                    FMul(Tenths(reviews[i].rating), weights[i])], Len(reviews)),
            FSum(weights, Len(reviews)))

\* platformTrustWeighted: platformWeights[r.platform] ?? 1.0, the weights
\* given in tenths.
PlatformTrustWeighted(reviews, w) ==
    LET weights == [i \in 1..Len(reviews) |->
                      IF reviews[i].platform \in DOMAIN w THEN Tenths(w[reviews[i].platform])
                      ELSE ToDouble(1)]
    IN FDiv(FSum([i \in 1..Len(reviews) |->
                    FMul(Tenths(reviews[i].rating), weights[i])], Len(reviews)),
            FSum(weights, Len(reviews)))

\* calculateAggregatedScore without the guards for an empty list.
CalculateAggregatedScoreUnguarded(reviews, config) ==
    IF Len(reviews) = 0 THEN NaN
    ELSE MathRound(FMul(SimpleAverage(reviews), ToDouble(100)))

\* calculateAggregatedScore, in hundredths of a star.
CalculateAggregatedScore(reviews, config) ==
    IF Len(reviews) = 0 THEN 0
    ELSE MathRound(FMul(
           CASE config.strategy = "simple_average" -> SimpleAverage(reviews)
             [] config.strategy = "review_count_weighted" -> ReviewCountWeighted(reviews)
             [] config.strategy = "bayesian_average" ->
                    BayesianAverage(reviews, config.bayesianPrior, config.bayesianMinReviews)
             [] config.strategy = "confidence_weighted" -> ConfidenceWeighted(reviews)
             [] config.strategy = "platform_trust" ->
                    PlatformTrustWeighted(reviews, config.platformWeights)
             [] OTHER -> SimpleAverage(reviews),
           ToDouble(100)))

\* The combination without Math.min on reviewScore: log10(totalReviews + 1) / 3
\* enters the sum as it is.
CalculateConfidenceUnclamped(reviews) ==
    IF Len(reviews) = 0 THEN 0
    ELSE LET l == Len(reviews)
             Least(x, y) == IF LimbLess(y, x) THEN y ELSE x
             totalReviews == SumOver([i \in 1..l |-> reviews[i].reviewCount], l)
             Square(x) == FMul(x, x)
             Consistency(half) == IF LimbLess(ToDouble(1), half) THEN ToDouble(0)
                                  ELSE FAbsDiff(ToDouble(1), half)
         IN MathRound(FMul(
              FAdd(FAdd(FMul(Least(FDiv(ToDouble(l), ToDouble(4)), ToDouble(1)), Tenths(3)),
                        FMul(FDiv(Log10(totalReviews + 1), ToDouble(3)), Tenths(4))),
                   FMul(Consistency(FDiv(
                          FDiv(FSum([i \in 1..l |->
                                       Square(FAbsDiff(Tenths(reviews[i].rating),
                                                       SimpleAverage(reviews)))], l),
                               ToDouble(l)),
                          ToDouble(2))),
                        Tenths(3))),
              ToDouble(100)))

\* calculateConfidence, in hundredths: platformScore * 0.3 + reviewScore * 0.4
\* + consistencyScore * 0.3.
CalculateConfidence(reviews) ==
    IF Len(reviews) = 0 THEN 0
    ELSE LET l == Len(reviews)
             Least(x, y) == IF LimbLess(y, x) THEN y ELSE x
             totalReviews == SumOver([i \in 1..l |-> reviews[i].reviewCount], l)
             Square(x) == FMul(x, x)
             \* Math.max(0, 1 - half)
             Consistency(half) == IF LimbLess(ToDouble(1), half) THEN ToDouble(0)
                                  ELSE FAbsDiff(ToDouble(1), half)
         IN MathRound(FMul(
              FAdd(FAdd(FMul(Least(FDiv(ToDouble(l), ToDouble(4)), ToDouble(1)), Tenths(3)),
                        FMul(Least(FDiv(Log10(totalReviews + 1), ToDouble(3)), ToDouble(1)),
                             Tenths(4))),
                   \* the variance is the mean of the squares of rating - mean,
                   \* the mean being the sum of the ratings by their number
                   FMul(Consistency(FDiv(
                          FDiv(FSum([i \in 1..l |->
                                       Square(FAbsDiff(Tenths(reviews[i].rating),
                                                       SimpleAverage(reviews)))], l),
                               ToDouble(l)),
                          ToDouble(2))),
                        Tenths(3))),
              ToDouble(100)))

----------------------------------------------------------------------------
(* Ranking: src/lib/ranking.ts *)

\* The value score whose penalty beyond maxTravelTimeMin is taken from 1 and not
\* from 0.7.
CalculateValueScoreFromOne(rating, travelTimeMin, maxTravelTimeMin, isExceptional) ==
    LET \* Math.max(floor, from - penalty)
        Floored(floor, from, penalty) ==
            IF LimbLess(from, penalty) THEN floor
            ELSE IF LimbLess(FAbsDiff(from, penalty), floor) THEN floor
            ELSE FAbsDiff(from, penalty)
        Effective(score) == IF isExceptional THEN FAdd(score, Tenths(2)) ELSE score
    IN IF {rating, travelTimeMin, maxTravelTimeMin} \cap {Undefined, NaN} # {} THEN NaN
       ELSE IF maxTravelTimeMin = 0 /\ travelTimeMin = 0 THEN NaN
       ELSE MathRound(FMul(
              FMul(Effective(FDiv(ToDouble(rating), ToDouble(100))),
                   IF maxTravelTimeMin = 0 THEN Tenths(3)
                   ELSE IF travelTimeMin <= maxTravelTimeMin
                   THEN Floored(Tenths(3), ToDouble(1),
                                FMul(FDiv(ToDouble(travelTimeMin),
                                          ToDouble(maxTravelTimeMin)),
                                     Tenths(3)))
                   ELSE Floored(Tenths(3), ToDouble(1),
                                FMul(FDiv(ToDouble(travelTimeMin - maxTravelTimeMin),
                                          ToDouble(maxTravelTimeMin)),
                                     Tenths(IF isExceptional THEN 1 ELSE 4)))),
              ToDouble(100)))

\* calculateValueScore: rating and result in hundredths, the times in minutes
\* (0 or more), any of them possibly undefined or NaN.  An undefined or
\* NaN argument makes timeFactor or the product NaN.  With maxTravelTimeMin 0
\* the travel time 0 gives 0 / 0, NaN, which Math.max(0.3, NaN) hands on; a
\* travel time above 0 gives 0.7 - Infinity, and Math.max the floor 0.3.
CalculateValueScore(rating, travelTimeMin, maxTravelTimeMin, isExceptional) ==
    LET \* Math.max(floor, from - penalty)
        Floored(floor, from, penalty) ==
            IF LimbLess(from, penalty) THEN floor
            ELSE IF LimbLess(FAbsDiff(from, penalty), floor) THEN floor
            ELSE FAbsDiff(from, penalty)
        Effective(score) == IF isExceptional THEN FAdd(score, Tenths(2)) ELSE score
    IN IF {rating, travelTimeMin, maxTravelTimeMin} \cap {Undefined, NaN} # {} THEN NaN
       ELSE IF maxTravelTimeMin = 0 /\ travelTimeMin = 0 THEN NaN
       ELSE MathRound(FMul(
              FMul(Effective(FDiv(ToDouble(rating), ToDouble(100))),
                   \* timeFactor
                   IF maxTravelTimeMin = 0 THEN Tenths(3)
                   ELSE IF travelTimeMin <= maxTravelTimeMin
                   THEN Floored(Tenths(3), ToDouble(1),
                                FMul(FDiv(ToDouble(travelTimeMin),
                                          ToDouble(maxTravelTimeMin)),
                                     Tenths(3)))
                   ELSE Floored(Tenths(3), Tenths(7),
                                FMul(FDiv(ToDouble(travelTimeMin - maxTravelTimeMin),
                                          ToDouble(maxTravelTimeMin)),
                                     Tenths(IF isExceptional THEN 1 ELSE 4)))),
              ToDouble(100)))

\* specialIndicators.some(ind => restaurant.name.toLowerCase().includes(ind)),
\* the name given as its characters.  toLowerCase turns every capital letter
\* into its small letter; a character that is no capital of the Latin alphabet
\* becomes no letter of an indicator.
HasSpecialIndicator(name) ==
    LET upperCase == <<"A", "B", "C", "D", "E", "F", "G", "H", "I", "J", "K", "L", "M",
                         "N", "O", "P", "Q", "R", "S", "T", "U", "V", "W", "X", "Y", "Z">>
        lowerCase == <<"a", "b", "c", "d", "e", "f", "g", "h", "i", "j", "k", "l", "m",
                         "n", "o", "p", "q", "r", "s", "t", "u", "v", "w", "x", "y", "z">>
        ToLowerCase(c) == IF \E k \in 1..26 : upperCase[k] = c
                          THEN lowerCase[CHOOSE k \in 1..26 : upperCase[k] = c]
                          ELSE c
        nameLower == [i \in 1..Len(name) |-> ToLowerCase(name[i])]
        specialIndicators ==
            { <<"m", "i", "c", "h", "e", "l", "i", "n">>,
              <<"j", "a", "m", "e", "s", " ", "b", "e", "a", "r", "d">>,
              <<"a", "w", "a", "r", "d">>,
              <<"s", "t", "a", "r", "r", "e", "d">> }
    IN \E ind \in specialIndicators :
          \E i \in 0..(Len(name) - Len(ind)) :
             \A j \in 1..Len(ind) : nameLower[i + j] = ind[j]

\* The decision by the threshold, the review minimum and the name alone, without
\* the second tier for ratings of 4.9 and more.
IsExceptionalByThreshold(aggregatedScore, reviews, award) ==
    LET totalReviews == SumOver([i \in 1..Len(reviews) |-> reviews[i].reviewCount],
                                Len(reviews))
    IN \/ aggregatedScore >= 480 /\ totalReviews >= 500
       \/ award

\* isExceptionalRestaurant with its default threshold 4.8 and minReviews 500;
\* award says whether the name contains one of the special indicators.
IsExceptionalRestaurant(aggregatedScore, reviews, award) ==
    LET totalReviews == SumOver([i \in 1..Len(reviews) |-> reviews[i].reviewCount],
                                Len(reviews))
    IN \/ aggregatedScore >= 480 /\ totalReviews >= 500
       \/ aggregatedScore >= 490 /\ totalReviews >= 200
       \/ award

----------------------------------------------------------------------------
(* Opening hours: src/lib/places.ts *)

\* isOpenAtTime without the look at the periods opened the day before.
IsOpenAtTimeNoPrev(openingHours, t) ==
    IF Len(openingHours) = 0 THEN TRUE
    ELSE \E i \in 1..Len(openingHours) :
           LET period == openingHours[i]
               closeTime == IF period.hasClose THEN period.closeTime ELSE 2359
           IN /\ period.openDay = t.day
              /\ IF period.hasClose /\ period.closeDay # period.openDay
                 THEN t.time >= period.openTime
                 ELSE t.time >= period.openTime /\ t.time <= closeTime

\* isOpenAtTime.  An instant is [day, time], time the HHMM number of the clock
\* (the code compares the zero-padded four-digit strings, which order alike);
\* a period is [openDay, openTime, hasClose, closeDay, closeTime].
IsOpenAtTime(openingHours, t) ==
    IF Len(openingHours) = 0 THEN TRUE
    ELSE \E i \in 1..Len(openingHours) :
           LET period == openingHours[i]
               closeTime == IF period.hasClose THEN period.closeTime ELSE 2359
           IN \/ /\ period.openDay = t.day
                 /\ IF period.hasClose /\ period.closeDay # period.openDay
                    THEN t.time >= period.openTime
                    ELSE t.time >= period.openTime /\ t.time <= closeTime
              \/ /\ period.openDay = (t.day + 6) % 7
                 /\ period.hasClose
                 /\ period.closeDay = t.day
                 /\ t.time <= period.closeTime

----------------------------------------------------------------------------
(* Filtering and sorting: rankRestaurants (src/lib/ranking.ts), the nearby   *)
(* branch of POST (route.ts) and the demo route (src/app/api/demo).          *)

\* x || 0: undefined, NaN and 0 are falsy.
OrZero(x) == IF x = Undefined \/ x = NaN THEN 0 ELSE x

\* Insertion for a sort in ascending order of valueScore.
RECURSIVE InsertAsc(_, _)
InsertAsc(s, x) ==
    IF s = <<>> THEN <<x>>
    ELSE IF OrZero(Head(s).valueScore) <= OrZero(x.valueScore)
         THEN <<Head(s)>> \o InsertAsc(Tail(s), x)
         ELSE <<x>> \o s

\* The comparator (a, b) => b.valueScore - a.valueScore as Array.prototype.sort
\* reads it: a difference with undefined or NaN is NaN, which sort takes for 0.
Order(a, b) ==
    IF a.valueScore \in {Undefined, NaN} \/ b.valueScore \in {Undefined, NaN} THEN 0
    ELSE b.valueScore - a.valueScore

\* Array.prototype.sort (V8) cuts the array into runs, a run being what
\* SortPrefix makes of the elements it starts with, and merges them.  A run is
\* lengthened by binary insertion: x goes behind the middle element of the
\* sorted part unless the comparator puts it before.
InsertDesc(s, x) ==
    LET Place[left \in 0..Len(s), right \in 0..Len(s)] ==
            IF left >= right THEN left
            ELSE IF Order(x, s[left + (right - left) \div 2 + 1]) < 0
                 THEN Place[left, left + (right - left) \div 2]
                 ELSE Place[left + (right - left) \div 2 + 1, right]
    IN SubSeq(s, 1, Place[0, Len(s)]) \o <<x>> \o SubSeq(s, Place[0, Len(s)] + 1, Len(s))

\* The first k elements of s sorted, for k from the length of the starting run
\* on: the run is the longest prefix in which no element is put before its
\* predecessor, or in which every element is (then it is reversed); the
\* elements behind it are inserted one after the other.
SortPrefix(s, k) ==
    LET RECURSIVE Insert(_, _)
        n == Len(s)
        descending == n >= 2 /\ Order(s[2], s[1]) < 0
        Continues(i) == IF descending THEN Order(s[i], s[i - 1]) < 0
                        ELSE Order(s[i], s[i - 1]) >= 0
        run == IF n < 2 THEN n
               ELSE CHOOSE r \in 2..n : /\ \A i \in 3..r : Continues(i)
                                        /\ r = n \/ ~Continues(r + 1)
        \* sorted, which holds the elements s starts with, lengthened to the
        \* first to elements: the next ones are inserted one after the other
        Insert(sorted, to) ==
            IF Len(sorted) >= to THEN sorted
            ELSE IF Len(sorted) + 1 = to THEN InsertDesc(sorted, s[to])
            ELSE Insert(Insert(sorted, (Len(sorted) + to) \div 2), to)
    IN Insert(IF descending THEN SubSeq([i \in 1..run |-> s[run + 1 - i]], 1, run)
              ELSE SubSeq(s, 1, run),
              k)

\* The merge of two adjacent runs a and b, both sorted and not empty, with
\* the galloping threshold the sort has reached; it gives the merged run and
\* the new threshold.  The elements of a that go before b[1], and those of b
\* that go behind the last of a, stay where they are.  The rest is merged
\* from the front when a's part is the shorter (MergeLow), otherwise from the
\* back (MergeHigh): one element at a time until one run has won minGallop
\* times in a row, then in blocks found by galloping (GallopRight,
\* GallopLeft: steps of 1, 3, 7, ... from the hint, then a binary search)
\* while a block of 7 or more is found.  In the arrays an offset counts from
\* 0.  A merge in progress is the record of its loop ("low", "lowGallop",
\* "high", "highGallop"), the merged part done, what is left of the runs and
\* the counters; each operator of a loop makes one pass of it.
MergeAt(a, b, minGallop) ==
    LET RECURSIVE LeftUp(_, _, _, _, _), LeftDown(_, _, _, _, _), LeftSearch(_, _, _, _)
        RECURSIVE RightUp(_, _, _, _, _), RightDown(_, _, _, _, _), RightSearch(_, _, _, _)
        RECURSIVE Passes(_, _, _)
        Smaller(x, y) == IF x < y THEN x ELSE y
        Last(t) == t[Len(t)]
        Front(t) == SubSeq(t, 1, Len(t) - 1)
        From(t, k) == SubSeq(t, k + 1, Len(t))
        \* GallopLeft: the offset before which key goes in array, ahead of the
        \* elements it equals.
        LeftSearch(array, key, lastOfs, offset) ==
            IF lastOfs >= offset THEN offset
            ELSE IF Order(array[lastOfs + (offset - lastOfs) \div 2 + 1], key) < 0
                 THEN LeftSearch(array, key, lastOfs + (offset - lastOfs) \div 2 + 1, offset)
                 ELSE LeftSearch(array, key, lastOfs, lastOfs + (offset - lastOfs) \div 2)
        LeftUp(array, key, hint, lastOfs, offset) ==
            IF offset < Len(array) - hint /\ Order(array[hint + offset + 1], key) < 0
            THEN LeftUp(array, key, hint, offset, 2 * offset + 1)
            ELSE LeftSearch(array, key, lastOfs + hint + 1,
                            Smaller(offset, Len(array) - hint) + hint)
        LeftDown(array, key, hint, lastOfs, offset) ==
            IF offset < hint + 1 /\ ~(Order(array[hint - offset + 1], key) < 0)
            THEN LeftDown(array, key, hint, offset, 2 * offset + 1)
            ELSE LeftSearch(array, key, hint - Smaller(offset, hint + 1) + 1, hint - lastOfs)
        GallopLeft(array, key, hint) ==
            IF Order(array[hint + 1], key) < 0 THEN LeftUp(array, key, hint, 0, 1)
            ELSE LeftDown(array, key, hint, 0, 1)
        \* GallopRight: the offset before which key goes in array, behind the
        \* elements it equals.
        RightSearch(array, key, lastOfs, offset) ==
            IF lastOfs >= offset THEN offset
            ELSE IF Order(key, array[lastOfs + (offset - lastOfs) \div 2 + 1]) < 0
                 THEN RightSearch(array, key, lastOfs, lastOfs + (offset - lastOfs) \div 2)
                 ELSE RightSearch(array, key, lastOfs + (offset - lastOfs) \div 2 + 1, offset)
        RightDown(array, key, hint, lastOfs, offset) ==
            IF offset < hint + 1 /\ Order(key, array[hint - offset + 1]) < 0
            THEN RightDown(array, key, hint, offset, 2 * offset + 1)
            ELSE RightSearch(array, key, hint - Smaller(offset, hint + 1) + 1, hint - lastOfs)
        RightUp(array, key, hint, lastOfs, offset) ==
            IF offset < Len(array) - hint /\ ~(Order(key, array[hint + offset + 1]) < 0)
            THEN RightUp(array, key, hint, offset, 2 * offset + 1)
            ELSE RightSearch(array, key, lastOfs + hint + 1,
                             Smaller(offset, Len(array) - hint) + hint)
        GallopRight(array, key, hint) ==
            IF Order(key, array[hint + 1]) < 0 THEN RightDown(array, key, hint, 0, 1)
            ELSE RightUp(array, key, hint, 0, 1)
        Merging(loop, done, restA, restB, gallop, nofWinsA, nofWinsB) ==
            [loop |-> loop, run |-> done, restA |-> restA, restB |-> restB,
             minGallop |-> gallop, nofWinsA |-> nofWinsA, nofWinsB |-> nofWinsB]
        Merged(run, gallop) == Merging("merged", run, <<>>, <<>>, gallop, 0, 0)
        \* MergeLow: done is the merged front; restA keeps 2 elements or more
        \* and restB 1 or more.  With 1 element left of a the rest of b goes
        \* before it (CopyB).
        Low(done, restA, restB, gallop, nofWinsA, nofWinsB) ==
            IF Order(restB[1], restA[1]) < 0
            THEN IF Len(restB) = 1 THEN Merged(done \o restB \o restA, gallop)
                 ELSE Merging(IF nofWinsB + 1 >= gallop THEN "lowGallop" ELSE "low",
                              Append(done, restB[1]), restA, Tail(restB),
                              IF nofWinsB + 1 >= gallop THEN gallop + 1 ELSE gallop,
                              0, nofWinsB + 1)
            ELSE IF Len(restA) = 2 THEN Merged(Append(done, restA[1]) \o restB \o Tail(restA), gallop)
                 ELSE Merging(IF nofWinsA + 1 >= gallop THEN "lowGallop" ELSE "low",
                              Append(done, restA[1]), Tail(restA), restB,
                              IF nofWinsA + 1 >= gallop THEN gallop + 1 ELSE gallop,
                              nofWinsA + 1, 0)
        \* the second half of a galloping pass: nofWinsB elements of b go
        \* before the first of a
        LowGallopB(done, restA, restB, gallop, nofWinsA, nofWinsB) ==
            IF nofWinsB > 0 /\ nofWinsB = Len(restB)
            THEN Merged(done \o restB \o restA, gallop)
            ELSE IF Len(restA) = 2
                 THEN Merged(done \o SubSeq(restB, 1, nofWinsB) \o <<restA[1]>>
                                  \o From(restB, nofWinsB) \o Tail(restA), gallop)
            ELSE Merging(IF nofWinsA >= 7 \/ nofWinsB >= 7 THEN "lowGallop" ELSE "low",
                         done \o SubSeq(restB, 1, nofWinsB) \o <<restA[1]>>,
                         Tail(restA), From(restB, nofWinsB),
                         IF nofWinsA >= 7 \/ nofWinsB >= 7 THEN gallop ELSE gallop + 1, 0, 0)
        \* the first half: nofWinsA elements of a go before the first of b,
        \* and this one behind them
        LowGallopA(done, restA, restB, gallop, nofWinsA) ==
            IF nofWinsA > 0 /\ Len(restA) - nofWinsA <= 1
            THEN Merged(done \o SubSeq(restA, 1, nofWinsA) \o restB \o From(restA, nofWinsA),
                        gallop)
            ELSE IF Len(restB) = 1
                 THEN Merged(done \o SubSeq(restA, 1, nofWinsA) \o restB
                                  \o From(restA, nofWinsA), gallop)
            ELSE LowGallopB(done \o SubSeq(restA, 1, nofWinsA) \o <<restB[1]>>,
                            From(restA, nofWinsA), Tail(restB), gallop, nofWinsA,
                            GallopLeft(Tail(restB), restA[nofWinsA + 1], 0))
        MergeLow(runA, runB) ==
            IF Len(runB) = 1 THEN Merged(runB \o runA, minGallop)
            ELSE IF Len(runA) = 1 THEN Merged(runB \o runA, minGallop)
            ELSE Merging("low", <<runB[1]>>, runA, Tail(runB), minGallop, 0, 0)
        \* MergeHigh: done is the merged back; restB keeps 2 elements or more
        \* and restA 1 or more.  With 1 element left of b the rest of a goes
        \* behind it (CopyA).
        High(restA, restB, done, gallop, nofWinsA, nofWinsB) ==
            IF Order(Last(restB), Last(restA)) < 0
            THEN IF Len(restA) = 1 THEN Merged(restB \o restA \o done, gallop)
                 ELSE Merging(IF nofWinsA + 1 >= gallop THEN "highGallop" ELSE "high",
                              <<Last(restA)>> \o done, Front(restA), restB,
                              IF nofWinsA + 1 >= gallop THEN gallop + 1 ELSE gallop,
                              nofWinsA + 1, 0)
            ELSE IF Len(restB) = 2
                 THEN Merged(Front(restB) \o restA \o <<Last(restB)>> \o done, gallop)
                 ELSE Merging(IF nofWinsB + 1 >= gallop THEN "highGallop" ELSE "high",
                              <<Last(restB)>> \o done, restA, Front(restB),
                              IF nofWinsB + 1 >= gallop THEN gallop + 1 ELSE gallop,
                              0, nofWinsB + 1)
        \* the second half of a galloping pass: the elements of b from offset
        \* keptB on go behind the last of a
        HighGallopB(restA, restB, done, gallop, nofWinsA, keptB) ==
            IF keptB < Len(restB) /\ keptB <= 1
            THEN Merged(SubSeq(restB, 1, keptB) \o restA \o From(restB, keptB) \o done, gallop)
            ELSE IF Len(restA) = 1
                 THEN Merged(SubSeq(restB, 1, keptB) \o restA \o From(restB, keptB) \o done,
                             gallop)
            ELSE Merging(IF nofWinsA >= 7 \/ Len(restB) - keptB >= 7 THEN "highGallop"
                         ELSE "high",
                         <<Last(restA)>> \o From(restB, keptB) \o done,
                         Front(restA), SubSeq(restB, 1, keptB),
                         IF nofWinsA >= 7 \/ Len(restB) - keptB >= 7 THEN gallop
                         ELSE gallop + 1, 0, 0)
        \* the first half: the elements of a from offset keptA on go behind
        \* the last of b, and this one before them
        HighGallopA(restA, restB, done, gallop, keptA) ==
            IF keptA < Len(restA) /\ keptA = 0
            THEN Merged(restB \o restA \o done, gallop)
            ELSE IF Len(restB) = 2
                 THEN Merged(Front(restB) \o SubSeq(restA, 1, keptA) \o <<Last(restB)>>
                                  \o From(restA, keptA) \o done, gallop)
            ELSE HighGallopB(SubSeq(restA, 1, keptA), Front(restB),
                             <<Last(restB)>> \o From(restA, keptA) \o done, gallop,
                             Len(restA) - keptA,
                             GallopLeft(Front(restB), restA[keptA], Len(restB) - 2))
        MergeHigh(runA, runB) ==
            IF Len(runA) = 1 THEN Merged(runB \o runA, minGallop)
            ELSE IF Len(runB) = 1 THEN Merged(runB \o runA, minGallop)
            ELSE Merging("high", <<Last(runA)>>, Front(runA), runB, minGallop, 0, 0)
        \* one pass of the loop the merge m is in; a galloping pass starts
        \* with the threshold lowered by 1, to 1 at least
        Pass(m) ==
            CASE m.loop = "low" ->
                     Low(m.run, m.restA, m.restB, m.minGallop, m.nofWinsA, m.nofWinsB)
              [] m.loop = "lowGallop" ->
                     LowGallopA(m.run, m.restA, m.restB,
                                IF m.minGallop - 1 > 1 THEN m.minGallop - 1 ELSE 1,
                                GallopRight(m.restA, m.restB[1], 0))
              [] m.loop = "high" ->
                     High(m.restA, m.restB, m.run, m.minGallop, m.nofWinsA, m.nofWinsB)
              [] m.loop = "highGallop" ->
                     HighGallopA(m.restA, m.restB, m.run,
                                 IF m.minGallop - 1 > 1 THEN m.minGallop - 1 ELSE 1,
                                 GallopRight(m.restA, Last(m.restB), Len(m.restA) - 1))
              [] OTHER -> m
        \* the passes it takes (all), or 2^j of them at most
        Passes(m, j, all) ==
            IF m.loop = "merged" THEN m
            ELSE IF all THEN Passes(Passes(m, j, FALSE), j + 1, TRUE)
            ELSE IF j = 0 THEN Pass(m)
            ELSE Passes(Passes(m, j - 1, FALSE), j - 1, FALSE)
        \* the runs put together again around the merged part
        Around(baseA, lengthB, merged) ==
            [run |-> SubSeq(a, 1, baseA) \o merged.run \o From(b, lengthB),
             minGallop |-> merged.minGallop]
        \* baseA: where b starts in a; lengthB: where a ends in b
        Between(baseA, lengthB) ==
            IF baseA = Len(a) \/ lengthB = 0 THEN [run |-> a \o b, minGallop |-> minGallop]
            ELSE Around(baseA, lengthB,
                        Passes(IF Len(a) - baseA <= lengthB
                               THEN MergeLow(From(a, baseA), SubSeq(b, 1, lengthB))
                               ELSE MergeHigh(From(a, baseA), SubSeq(b, 1, lengthB)),
                               0, TRUE))
    IN Between(GallopRight(a, b[1], 0), GallopLeft(b, Last(a), Len(b) - 1))

\* Array.prototype.sort with the comparator Order, as V8 runs it
\* (ArrayTimSortImpl): runs are taken from the array one after the other, a
\* run shorter than the minimal length lengthened to it by binary insertion,
\* and the pending runs are merged as soon as the last three are not of
\* falling lengths, each longer than the two behind it together.  An array
\* of fewer than 64 elements is one run.  The sort in progress is the record
\* of its phase ("run": the next run is taken; "collapse": MergeCollapse
\* after a run was pushed; "force": MergeForceCollapse, when the array is used
\* up), the pending runs, the galloping threshold and the rest of the array.
ArrayTimSort(s) ==
    LET RECURSIVE ComputeMinRunLength(_, _), Steps(_, _, _)
        ComputeMinRunLength(n, r) ==
            IF n >= 64 THEN ComputeMinRunLength(n \div 2, IF n % 2 = 1 THEN 1 ELSE r)
            ELSE n + r
        RunInvariantEstablished(runs, n) ==
            n < 3 \/ Len(runs[n - 2]) > Len(runs[n - 1]) + Len(runs[n])
        \* the run that is merged with the next one, 0 when none is; n
        \* counts the runs before the last
        MergeCollapse(runs, n) ==
            IF n < 1 THEN 0
            ELSE IF ~RunInvariantEstablished(runs, n + 1) \/ ~RunInvariantEstablished(runs, n)
                 THEN IF Len(runs[n - 1]) < Len(runs[n + 1]) THEN n - 1 ELSE n
            ELSE IF Len(runs[n]) <= Len(runs[n + 1]) THEN n
            ELSE 0
        MergeForceCollapse(runs, n) ==
            IF n < 1 THEN 0
            ELSE IF n > 1 /\ Len(runs[n - 1]) < Len(runs[n + 1]) THEN n - 1
            ELSE n
        PushRun(pending, run) ==
            [pending EXCEPT !.phase = "collapse", !.runs = Append(@, run),
                            !.rest = SubSeq(@, Len(run) + 1, Len(@))]
        \* the pending runs with merged in the place of runs i and i + 1
        Replace(pending, i, merged) ==
            [pending EXCEPT !.runs = SubSeq(@, 1, i - 1) \o <<merged.run>>
                                       \o SubSeq(@, i + 2, Len(@)),
                            !.minGallop = merged.minGallop]
        \* runs i and i + 1 merged, or the next phase when there is nothing
        \* to merge
        Merge(pending, i, phase) ==
            IF i = 0 THEN [pending EXCEPT !.phase = phase]
            ELSE Replace(pending, i,
                         MergeAt(pending.runs[i], pending.runs[i + 1], pending.minGallop))
        Step(pending) ==
            IF pending.phase = "run"
            THEN IF pending.rest = <<>> THEN [pending EXCEPT !.phase = "force"]
                 ELSE PushRun(pending,
                              SortPrefix(pending.rest,
                                         IF ComputeMinRunLength(Len(s), 0) < Len(pending.rest)
                                         THEN ComputeMinRunLength(Len(s), 0)
                                         ELSE Len(pending.rest)))
            ELSE Merge(pending,
                       IF pending.phase = "collapse"
                       THEN MergeCollapse(pending.runs, Len(pending.runs) - 1)
                       ELSE MergeForceCollapse(pending.runs, Len(pending.runs) - 1),
                       IF pending.phase = "collapse" THEN "run" ELSE "sorted")
        \* the steps it takes (all), or 2^j of them at most
        Steps(pending, j, all) ==
            IF pending.phase = "sorted" THEN pending
            ELSE IF all THEN Steps(Steps(pending, j, FALSE), j + 1, TRUE)
            ELSE IF j = 0 THEN Step(pending)
            ELSE Steps(Steps(pending, j - 1, FALSE), j - 1, FALSE)
    IN IF Len(s) < 2 THEN s
       ELSE Steps([phase |-> "run", runs |-> <<>>, minGallop |-> 7, rest |-> s],
                  0, TRUE).runs[1]

\* .sort((a, b) => (b.valueScore || 0) - (a.valueScore || 0)): the sort on the
\* keys valueScore || 0.
SortByValueScore(s) ==
    LET keyed == SubSeq([i \in 1..Len(s) |-> [valueScore |-> OrZero(s[i].valueScore), at |-> i]],
                        1, Len(s))
        Elements(sorted) == SubSeq([i \in 1..Len(s) |-> s[sorted[i].at]], 1, Len(s))
    IN Elements(ArrayTimSort(keyed))

\* s.filter(...), keep[i] telling whether s[i] is retained.
Filter(s, keep) ==
    LET RECURSIVE Kept(_, _)
        \* what is retained of s[from], ..., s[to]
        Kept(from, to) ==
            IF from > to THEN <<>>
            ELSE IF from = to THEN IF keep[from] THEN <<s[from]>> ELSE <<>>
            ELSE Kept(from, (from + to) \div 2) \o Kept((from + to) \div 2 + 1, to)
    IN Kept(1, Len(s))

\* A travel filter without the override for exceptional venues.
WithinTravelOnly(r, maxTravelTimeMin) ==
    r.travelTimeMin \notin {Undefined, NaN} /\ r.travelTimeMin <= maxTravelTimeMin

\* .filter(r => r.travelTimeMin <= config.maxTravelTimeMin || r.isExceptional):
\* undefined <= n and NaN <= n are false.
WithinTravelOrExceptional(r, maxTravelTimeMin) ==
    \/ r.travelTimeMin \notin {Undefined, NaN} /\ r.travelTimeMin <= maxTravelTimeMin
    \/ r.isExceptional

\* rankRestaurants(restaurants, config): .filter(r => r.isOpen), the travel
\* filter, and the sort by b.valueScore - a.valueScore.
RankRestaurants(restaurants, maxTravelTimeMin) ==
    LET open == Filter(restaurants, [i \in 1..Len(restaurants) |->
                                       restaurants[i].isOpenNow = "true"])
        near == Filter(open, [i \in 1..Len(open) |->
                                WithinTravelOrExceptional(open[i], maxTravelTimeMin)])
    IN ArrayTimSort(near)

\* places.find(p => p.placeId === r.id)?.openingHours
RECURSIVE HoursOf(_, _)
HoursOf(ps, id) ==
    IF ps = <<>> THEN <<>>
    ELSE IF Head(ps).placeId = id THEN Head(ps).openingHours
         ELSE HoursOf(Tail(ps), id)

\* The filter and sort of the nearby branch of POST.  The open-status filter
\* keeps, for 'now', only venues whose openNow is true, and for a later time
\* those that isOpenAtTime finds open on the venue's periods.
RouteRank(restaurants, ps, isNow, plannedDate, maxTravelTimeMin) ==
    LET RouteIsOpen(r) == IF isNow THEN r.isOpenNow = "true"
                          ELSE IsOpenAtTime(HoursOf(ps, r.id), plannedDate)
        open == Filter(restaurants, [i \in 1..Len(restaurants) |->
                                       RouteIsOpen(restaurants[i])])
        \* (r.travelTimeMin || 0) <= maxTravelTimeMin || r.isExceptional
        near == Filter(open, [i \in 1..Len(open) |->
                                \/ OrZero(open[i].travelTimeMin) <= maxTravelTimeMin
                                \/ open[i].isExceptional])
    IN SortByValueScore(near)

\* The filter and sort of the demo route: the open filter only if openNowOnly,
\* the travel filter only if the user's location is given.
DemoRank(restaurants, openNowOnly, hasLocation, maxTravelTimeMin) ==
    LET open == IF openNowOnly
                THEN Filter(restaurants, [i \in 1..Len(restaurants) |->
                                            restaurants[i].isOpenNow = "true"])
                ELSE restaurants
        near == IF hasLocation
                THEN Filter(open, [i \in 1..Len(open) |->
                                     \/ /\ open[i].travelTimeMin \notin {Undefined, NaN}
                                        /\ open[i].travelTimeMin <= maxTravelTimeMin
                                     \/ open[i].isExceptional])
                ELSE open
    IN SortByValueScore(near)

----------------------------------------------------------------------------
(* fetchAllPlatformReviews with withTimeout: src/lib/apis/index.ts *)

Pending == [platform |-> "pending", rating |-> 0, reviewCount |-> 0]

\* One call: every adapter is running and every race is open.  failed
\* remembers the adapters whose call met an error before their timer fired.
FetchStarted ==
    [st |-> "pending",
     adapter |-> [a \in Api |-> "running"],
     race |-> [a \in Api |-> [val |-> Pending, by |-> "none"]],
     reviews |-> <<>>,
     failed |-> {}]

\* Promise.race of withTimeout: the first settlement stands.
RaceSettle(race, v, who) ==
    IF race.val = Pending THEN [val |-> v, by |-> who] ELSE race

\* if (yelpResult) reviews.push(yelpResult); ... in the order yelp, foursquare,
\* tripadvisor.
CollectReviews(race) ==
    SelectSeq(<<race["yelp"].val, race["foursquare"].val, race["tripadvisor"].val>>,
              LAMBDA v : v # Absent)

\* await Promise.all over the three races, then the collection of the reviews.
FetchAwait(f) ==
    IF f.st # "pending" THEN f
    ELSE IF \E a \in Api : f.race[a].val = Thrown THEN [f EXCEPT !.st = "rejected"]
    ELSE IF \A a \in Api : f.race[a].val # Pending
         THEN [f EXCEPT !.st = "returned", !.reviews = CollectReviews(f.race)]
    ELSE f

\* An orchestrator whose adapters push their review themselves, also after
\* the call has returned.
FetchOnAdapterLate(f, a, v) ==
    FetchAwait([f EXCEPT !.adapter[a] = "resolved",
                         !.race[a] = RaceSettle(f.race[a], v, "adapter"),
                         !.reviews = IF f.st = "returned" /\ v # Absent /\ v # Thrown
                                     THEN Append(f.reviews, v) ELSE f.reviews])

\* The adapter's promise settles with v; a settlement after the timer is lost.
FetchOnAdapter(f, a, v) ==
    FetchAwait([f EXCEPT !.adapter[a] = "resolved",
                         !.race[a] = RaceSettle(f.race[a], v, "adapter")])

\* A timer that rejects instead of resolving with null.
FetchOnTimerReject(f, a) ==
    FetchAwait([f EXCEPT !.race[a] = RaceSettle(f.race[a], Thrown, "timer")])

\* The timer of withTimeout fires: resolve(null).
FetchOnTimer(f, a) ==
    FetchAwait([f EXCEPT !.race[a] = RaceSettle(f.race[a], Absent, "timer")])

----------------------------------------------------------------------------
(* POST: src/app/api/search/route.ts *)

\* maxTravelTimeMin = 20 when the body gives none.
DefaultMaxTravelTimeMin == 20

\* places.slice(0, 10)
SliceLimit == 10

\* A request body that request.json() cannot parse.
Unparsable == [body |-> "unparsable", nearby |-> FALSE, hasLat |-> FALSE, hasLon |-> FALSE,
               isNow |-> TRUE, platforms |-> <<>>]

\* Request bodies: query names a venue or is the nearby sentinel, userLat and
\* userLon are given or not, plannedTime is 'now' or a later daypart, platforms
\* is the requested source list.
\* The nearby branch never reads platforms and the specific branch never reads
\* plannedTime; each is held at one value there.
Requests ==
    {r \in [body : {"ok"}, nearby : BOOLEAN, hasLat : BOOLEAN, hasLon : BOOLEAN,
            isNow : BOOLEAN, platforms : DistinctSeqs(PlatformPool, MaxPlatforms)] :
        IF r.nearby THEN r.platforms = <<>> ELSE r.isNow}
    \cup {Unparsable}

\* The instant a later daypart stands for in this model: a Monday, 12:00.
PlannedDate == [day |-> 1, time |-> 1200]

\* Venues searchNearbyPlaces may return.  driveTimeMin stands for
\* estimateDriveTime(calculateDistance(...)) of the venue's coordinates, award
\* for a name containing a special indicator.
PlacePool ==
    { [placeId |-> 1, rating |-> 45, userRatingsTotal |-> 100, openNow |-> "true",
       openingHours |-> <<>>, driveTimeMin |-> 5, award |-> FALSE],
      [placeId |-> 2, rating |-> 0, userRatingsTotal |-> 0, openNow |-> "false",
       openingHours |-> <<[openDay |-> 1, openTime |-> 900, hasClose |-> TRUE,
                           closeDay |-> 1, closeTime |-> 1700]>>,
       driveTimeMin |-> 30, award |-> TRUE] }

NoResponse == [status |-> 0]

\* A guard that rejects only when both coordinates are missing.
LocationMissingBoth(r) == ~r.hasLat /\ ~r.hasLon

\* The guard of the nearby branch: !userLat || !userLon.
LocationMissing(r) == ~r.hasLat \/ ~r.hasLon

\* The restaurant the per-venue closure returns, from the signals it kept and
\* their aggregated score.
ScoredRestaurant(place, allReviews, aggregatedScore) ==
    LET exceptional == IsExceptionalRestaurant(aggregatedScore, allReviews, place.award)
    IN [id |-> place.placeId,
        reviews |-> allReviews,
        aggregatedScore |-> aggregatedScore,
        isOpenNow |-> place.openNow,
        travelTimeMin |-> place.driveTimeMin,
        isExceptional |-> exceptional,
        valueScore |-> CalculateValueScore(aggregatedScore, place.driveTimeMin,
                                           DefaultMaxTravelTimeMin, exceptional)]

\* The body of the per-venue closure after fetchAllPlatformReviews returned.
BuildRestaurant(place, additionalReviews) ==
    LET googleReview == [platform |-> "google", rating |-> place.rating,
                         reviewCount |-> place.userRatingsTotal]
        allReviews == SelectSeq(<<googleReview>> \o additionalReviews, LAMBDA r : r.rating > 0)
    IN ScoredRestaurant(place, allReviews, CalculateAggregatedScore(allReviews, DefaultConfig))

\* The restaurants of the per-venue closure for the venues of the pool and the
\* review lists fetchAllPlatformReviews returns when every adapter gave a review
\* or null: the closure is a function of the two, and it is computed once for
\* each pair.
BuiltRestaurants ==
    [place \in PlacePool,
     additionalReviews \in
         {CollectReviews(race) :
              race \in {r \in [Api -> [val : {o.val : o \in UNION {OutcomesOf(a) : a \in Api}}]] :
                           \A a \in Api : r[a].val \in {o.val : o \in OutcomesOf(a)} \ {Thrown}}}
     |-> BuildRestaurant(place, additionalReviews)]

\* The 200 response of the nearby branch; it has no errors member.
NearbyResponse(r, ps, fetches) ==
    LET n == IF Len(ps) < SliceLimit THEN Len(ps) ELSE SliceLimit
        Ranked(restaurants) ==
            RouteRank(restaurants, ps, r.isNow, PlannedDate, DefaultMaxTravelTimeMin)
        Response(ranked) ==
            [status |-> 200, kind |-> "restaurants",
             restaurants |-> ranked,
             totalFound |-> Len(ps),
             filteredCount |-> Len(ranked),
             hasErrors |-> FALSE,
             errors |-> NoErrors]
    IN Response(Ranked(SubSeq([i \in 1..n |->
                                  IF <<ps[i], fetches[i].reviews>> \in DOMAIN BuiltRestaurants
                                  THEN BuiltRestaurants[ps[i], fetches[i].reviews]
                                  ELSE BuildRestaurant(ps[i], fetches[i].reviews)],
                              1, n)))

\* The inner catch of the nearby branch.
PlacesFailed == [status |-> 500, kind |-> "error", error |-> "PlacesFailed"]

\* The response of a specific-venue search once scrapeAllPlatforms has returned.
\* restaurant.latitude is never set on this path, so the distance, value score
\* and exceptional flag stay undefined.
SpecificResponse(r, res, errs) ==
    [status |-> 200, kind |-> "restaurant",
     reviews |-> res,
     aggregatedScore |-> CalculateAggregatedScore(res, DefaultConfig),
     valueScore |-> Undefined,
     hasErrors |-> DOMAIN errs # {},
     errors |-> errs,
     platformsSearched |-> r.platforms,
     platformsFound |-> [i \in 1..Len(res) |-> res[i].platform]]

\* The outer catch of POST.
InternalError == [status |-> 500, kind |-> "error", error |-> "Internal"]

\* What POST does when the await of scrapeAllPlatforms settles.
AfterScrapeAll(state, r, res, errs) ==
    CASE state = "returned" -> SpecificResponse(r, res, errs)
      [] state = "rejected" -> InternalError
      [] OTHER -> NoResponse

\* The synchronous part of the closure of scrapeAllPlatforms for platform p: an
\* unknown platform is recorded and the closure is over, a known one enters
\* scraper.scrape and waits for init.
ClosureStart(p) ==
    IF p \in ScraperMap
    THEN [st |-> "init", browser |-> FALSE, page |-> FALSE, scraped |-> "none"]
    ELSE [st |-> "resolved", browser |-> FALSE, page |-> FALSE, scraped |-> "unknown"]

\* scraped remembers how scraper.scrape ended: "data" for success with data,
\* "failed" for success=false or an exception, "unknown" for no scraper.
IdleScraper == [st |-> "none", browser |-> FALSE, page |-> FALSE, scraped |-> "none"]

RECURSIVE UnknownErrors(_)
UnknownErrors(ps) ==
    IF ps = <<>> THEN NoErrors
    ELSE LET rest == UnknownErrors(Tail(ps)) IN
         IF Head(ps) \in ScraperMap THEN rest
         ELSE SetError(rest, Head(ps), "Unknown platform")

\* A closure of scrapeAllPlatforms has settled: Promise.all is looked at and,
\* when it settles now, POST goes on to its response.
SettleScrapeAll(scr2, res2, errs2) ==
    LET state == IF sa = "pending" THEN PromiseAll(scr2, Range(req.platforms)) ELSE sa IN
    /\ sa' = state
    /\ IF sa = "pending" /\ state # "pending"
       THEN /\ pc' = "done"
            /\ response' = AfterScrapeAll(state, req, res2, errs2)
       ELSE UNCHANGED <<pc, response>>

\* POST reads and parses the body; an unparsable body goes to the outer catch.
ParseFails ==
    /\ pc = "start"
    /\ req.body = "unparsable"
    /\ pc' = "done"
    /\ response' = InternalError
    /\ UNCHANGED <<req, placesCalls, places, fa, scr, results, errors, sa, sq, rk, ad, fn>>

\* POST, nearby search without userLat or userLon: 400, nothing is fetched.
RejectNearby ==
    /\ pc = "start"
    /\ req.body = "ok"
    /\ req.nearby
    /\ LocationMissing(req)
    /\ pc' = "done"
    /\ response' = [status |-> 400, kind |-> "error", error |-> "LocationRequired"]
    /\ UNCHANGED <<req, placesCalls, places, fa, scr, results, errors, sa, sq, rk, ad, fn>>

\* POST, nearby search with a location: searchNearbyPlaces is called.
StartNearby ==
    /\ pc = "start"
    /\ req.body = "ok"
    /\ req.nearby
    /\ ~LocationMissing(req)
    /\ pc' = "places"
    /\ placesCalls' = placesCalls + 1
    /\ UNCHANGED <<req, response, places, fa, scr, results, errors, sa, sq, rk, ad, fn>>

\* searchNearbyPlaces throws (no API key, or a status other than OK and
\* ZERO_RESULTS): the inner catch answers 500.
PlacesThrows ==
    /\ pc = "places"
    /\ pc' = "done"
    /\ response' = PlacesFailed
    /\ UNCHANGED <<req, placesCalls, places, fa, scr, results, errors, sa, sq, rk, ad, fn>>

\* searchNearbyPlaces returns ps: the closure of every venue (of the first ten)
\* runs up to its await of fetchAllPlatformReviews, which has started all three
\* adapters and their timers.
PlacesReturns ==
    /\ pc = "places"
    /\ \E ps \in DistinctSeqs(PlacePool, MaxPlaces) :
         LET n == IF Len(ps) < SliceLimit THEN Len(ps) ELSE SliceLimit
             fa2 == [i \in 1..n |-> FetchStarted]
         IN /\ places' = ps
            /\ fa' = fa2
            /\ IF n = 0
               THEN /\ pc' = "done"
                    /\ response' = NearbyResponse(req, ps, fa2)
               ELSE /\ pc' = "fetching"
                    /\ UNCHANGED response
    /\ UNCHANGED <<req, placesCalls, scr, results, errors, sa, sq, rk, ad, fn>>

\* A fetchAllPlatformReviews call has changed: when it returned, its venue's
\* restaurant is built, and once every venue's closure is over (Promise.all)
\* the list is filtered, sorted and sent; a rejection goes to the inner catch.
SettleNearby(fa2) ==
    /\ fa' = fa2
    /\ IF pc = "fetching" /\ \E i \in 1..Len(fa2) : fa2[i].st = "rejected"
       THEN /\ pc' = "done"
            /\ response' = PlacesFailed
       ELSE IF pc = "fetching" /\ \A i \in 1..Len(fa2) : fa2[i].st = "returned"
       THEN /\ pc' = "done"
            /\ response' = NearbyResponse(req, places, fa2)
       ELSE UNCHANGED <<pc, response>>

\* The promise of adapter a of venue i settles, in time or late.
AdapterSettles(i, a) ==
    /\ pc \in {"fetching", "done"}
    /\ i \in 1..Len(fa)
    /\ fa[i].adapter[a] = "running"
    /\ \E o \in OutcomesOf(a) :
         SettleNearby([fa EXCEPT ![i] =
             [FetchOnAdapter(fa[i], a, o.val) EXCEPT
                 !.failed = IF o.error /\ fa[i].race[a].val = Pending
                            THEN @ \cup {a} ELSE @]])
    /\ UNCHANGED <<req, placesCalls, places, scr, results, errors, sa, sq, rk, ad, fn>>

\* The API_TIMEOUT timer of adapter a of venue i fires before the adapter settled.
TimerFires(i, a) ==
    /\ pc \in {"fetching", "done"}
    /\ i \in 1..Len(fa)
    /\ fa[i].race[a].val = Pending
    /\ SettleNearby([fa EXCEPT ![i] = FetchOnTimer(fa[i], a)])
    /\ UNCHANGED <<req, placesCalls, places, scr, results, errors, sa, sq, rk, ad, fn>>

\* POST, specific venue: scrapeAllPlatforms is called; every closure runs up to
\* its first await.
StartScrapeAll ==
    /\ pc = "start"
    /\ req.body = "ok"
    /\ ~req.nearby
    /\ LET scr2 == [p \in Platform |->
                      IF p \in Range(req.platforms) THEN ClosureStart(p) ELSE IdleScraper]
           errs2 == UnknownErrors(req.platforms)
           state == PromiseAll(scr2, Range(req.platforms))
       IN /\ scr' = scr2
          /\ errors' = errs2
          /\ results' = <<>>
          /\ sa' = state
          /\ IF state = "pending"
             THEN /\ pc' = "scraping"
                  /\ response' = NoResponse
             ELSE /\ pc' = "done"
                  /\ response' = AfterScrapeAll(state, req, <<>>, errs2)
    /\ UNCHANGED <<req, placesCalls, places, fa, sq, rk, ad, fn>>

\* The closure after scraper.scrape has returned r: results or errors is
\* written, then finally scraper.close() runs: with no browser it is over at
\* once, otherwise it awaits browser.close().
ClosureRecord(p, r, browser, page) ==
    LET res2  == RecordResults(results, r)
        errs2 == RecordErrors(errors, p, r)
        scr2  == [scr EXCEPT ![p] = [st |-> IF browser THEN "closing" ELSE "resolved",
                                     browser |-> browser, page |-> page,
                                     scraped |-> IF r.kind = "result" /\ r.success
                                                 THEN "data" ELSE "failed"]]
    IN /\ results' = res2
       /\ errors' = errs2
       /\ scr' = scr2
       /\ SettleScrapeAll(scr2, res2, errs2)

\* BaseScraper.init inside scrape, one await at a time.  While this.browser is
\* null the closure awaits chromium.launch: it throws (no browser), or it
\* resolves and this.browser is set.  With the browser set the closure awaits
\* newContext and then newPage: one of them throws (browser, no page), or the
\* page is ready.
ScraperInit(p) ==
    /\ scr[p].st = "init"
    /\ IF ~scr[p].browser
       THEN \E o \in {"launchThrows", "ok"} :
              IF o = "launchThrows"
              THEN ClosureRecord(p, Scrape(p, "throw"), FALSE, FALSE)
              ELSE /\ scr' = [scr EXCEPT ![p].browser = TRUE]
                   /\ UNCHANGED <<results, errors, sa, pc, response>>
       ELSE \E o \in {"pageThrows", "ok"} :
              IF o = "pageThrows"
              THEN ClosureRecord(p, Scrape(p, "throw"), TRUE, FALSE)
              ELSE /\ scr' = [scr EXCEPT ![p] = [st |-> "page", browser |-> TRUE, page |-> TRUE,
                                                  scraped |-> "none"]]
                   /\ UNCHANGED <<results, errors, sa, pc, response>>
    /\ UNCHANGED <<req, placesCalls, places, fa, sq, rk, ad, fn>>

\* page.goto, waitForTimeout and parseResults: a review, a review whose rating
\* is NaN, no review, or an exception.
ScraperParse(p) ==
    /\ scr[p].st = "page"
    /\ \E o \in {"data", "nan", "nodata", "throw"} :
         ClosureRecord(p, Scrape(p, o), TRUE, TRUE)
    /\ UNCHANGED <<req, placesCalls, places, fa, sq, rk, ad, fn>>

\* BaseScraper.close: browser.close() resolves and browser and page are
\* cleared, or it rejects and the closure rejects from its finally block.
ScraperClose(p) ==
    /\ scr[p].st = "closing"
    /\ \E o \in {"ok", "throw"} :
         LET scr2 == [scr EXCEPT ![p] =
                        IF o = "ok" THEN [scr[p] EXCEPT !.st = "resolved", !.browser = FALSE,
                                                                  !.page = FALSE]
                        ELSE [scr[p] EXCEPT !.st = "rejected"]]
         IN /\ scr' = scr2
            /\ SettleScrapeAll(scr2, results, errors)
    /\ UNCHANGED <<req, placesCalls, places, fa, results, errors, sq, rk, ad, fn>>

Off == [pc |-> "off"]

Init ==
    /\ req \in Requests
    /\ pc = "start"
    /\ response = NoResponse
    /\ placesCalls = 0
    /\ places = <<>>
    /\ fa = <<>>
    /\ scr = [p \in Platform |-> IdleScraper]
    /\ results = <<>>
    /\ errors = NoErrors
    /\ sa = "idle"
    /\ sq = Off
    /\ rk = Off
    /\ ad = Off
    /\ fn = Off

Next ==
    \/ ParseFails
    \/ RejectNearby
    \/ StartNearby
    \/ PlacesThrows
    \/ PlacesReturns
    \/ \E i \in 1..(MaxPlaces + 1), a \in Api : AdapterSettles(i, a)
    \/ \E i \in 1..(MaxPlaces + 1), a \in Api : TimerFires(i, a)
    \/ StartScrapeAll
    \/ \E p \in Platform : ScraperInit(p)
    \/ \E p \in Platform : ScraperParse(p)
    \/ \E p \in Platform : ScraperClose(p)

Spec == Init /\ [][Next]_vars

----------------------------------------------------------------------------
(* The sequential fetchAllPlatformReviews with the Yelp rate limit           *)
(* (src/unnamed/part_004): shared lastYelpRequest, one adapter after another *)

MaxCalls == 3

MaxTicks == 2

YELP_MIN_INTERVAL == 200

\* The clock of the model advances in steps of half the interval.
TickMs == YELP_MIN_INTERVAL \div 2

IdleCall == [pc |-> "idle", wake |-> 0, hung |-> FALSE, reviews |-> <<>>, yelpAt |-> Undefined]

\* lastYelpRequest starts at 0 while Date.now() is far beyond the interval:
\* the clock of the model starts one interval after 0.
SeqInit ==
    [now |-> YELP_MIN_INTERVAL, lastYelpRequest |-> 0,
     calls |-> [c \in 1..MaxCalls |-> IdleCall]]

\* The adapter awaited at each position, and the position after it.
SeqAdapter(p) ==
    CASE p = "yelp" -> "yelp" [] p = "foursquare" -> "foursquare" [] OTHER -> "tripadvisor"

SeqAfter(p) ==
    CASE p = "yelp" -> "foursquare" [] p = "foursquare" -> "tripadvisor" [] OTHER -> "returned"

\* What an adapter settles with here: of all it can end with, null, a
\* rejection, or the venue's review as the source holds it.
SeqOutcomes(a) == {o.val : o \in OutcomesOf(a)} \cap {Absent, Thrown, ReviewOf(a)}

\* if (result) reviews.push(result)
PushIfTruthy(reviews, v) == IF v # Absent THEN Append(reviews, v) ELSE reviews

\* fetchAllPlatformReviews is called: within the interval it sleeps for the
\* remainder, otherwise it stamps lastYelpRequest and calls searchYelp, whose
\* promise will settle or (h) never does.
SeqCall(c) ==
    /\ sq.calls[c].pc = "idle"
    /\ LET timeSinceLastYelp == sq.now - sq.lastYelpRequest IN
       IF timeSinceLastYelp < YELP_MIN_INTERVAL
       THEN sq' = [sq EXCEPT !.calls[c].pc = "delay",
                             !.calls[c].wake = sq.now + (YELP_MIN_INTERVAL - timeSinceLastYelp)]
       ELSE \E h \in BOOLEAN :
              sq' = [sq EXCEPT !.lastYelpRequest = sq.now,
                               !.calls[c].pc = "yelp",
                               !.calls[c].hung = h,
                               !.calls[c].yelpAt = sq.now]

\* The delay is over: lastYelpRequest = Date.now(), then searchYelp is called.
SeqDelayDone(c) ==
    /\ sq.calls[c].pc = "delay"
    /\ sq.now >= sq.calls[c].wake
    /\ \E h \in BOOLEAN :
         sq' = [sq EXCEPT !.lastYelpRequest = sq.now,
                          !.calls[c].pc = "yelp",
                          !.calls[c].hung = h,
                          !.calls[c].yelpAt = sq.now]

\* The awaited adapter settles with v: a review is pushed, and the next
\* adapter is called, or the reviews are returned.
SeqSettle(c) ==
    /\ sq.calls[c].pc \in Api
    /\ ~sq.calls[c].hung
    /\ \E v \in SeqOutcomes(SeqAdapter(sq.calls[c].pc)), h \in BOOLEAN :
         IF v = Thrown
         THEN sq' = [sq EXCEPT !.calls[c].pc = "rejected"]
         ELSE sq' = [sq EXCEPT !.calls[c].reviews = PushIfTruthy(sq.calls[c].reviews, v),
                               !.calls[c].pc = SeqAfter(sq.calls[c].pc),
                               !.calls[c].hung = (h /\ SeqAfter(sq.calls[c].pc) # "returned")]

\* Time passes; the clock of the model stops at its bound unless a call is
\* still asleep.
SeqTick ==
    /\ \/ sq.now < YELP_MIN_INTERVAL + MaxTicks * TickMs
       \/ \E c \in 1..MaxCalls : sq.calls[c].pc = "delay" /\ sq.now < sq.calls[c].wake
    /\ sq' = [sq EXCEPT !.now = sq.now + TickMs]

\* No request is being served.
RouteOff ==
    /\ req = Unparsable
    /\ pc = "off"
    /\ response = NoResponse
    /\ placesCalls = 0
    /\ places = <<>>
    /\ fa = <<>>
    /\ scr = [p \in Platform |-> IdleScraper]
    /\ results = <<>>
    /\ errors = NoErrors
    /\ sa = "idle"

InitSeq ==
    /\ RouteOff
    /\ sq = SeqInit
    /\ rk = Off
    /\ ad = Off
    /\ fn = Off

NextSeq ==
    /\ \/ \E c \in 1..MaxCalls : SeqCall(c)
       \/ \E c \in 1..MaxCalls : SeqDelayDone(c)
       \/ \E c \in 1..MaxCalls : SeqSettle(c)
       \/ SeqTick
    /\ UNCHANGED <<req, pc, response, placesCalls, places, fa, scr, results, errors, sa, rk, ad, fn>>

SpecSeq == InitSeq /\ [][NextSeq]_vars

\* The event loop runs every continuation that is ready, and time passes.
FairSpecSeq == SpecSeq /\ WF_vars(NextSeq)

\* C2 (sequential variant): every call of fetchAllPlatformReviews that has
\* started eventually returns, even when one of its adapters never completes.
C2_SeqEventuallyReturns ==
    \A c \in 1..MaxCalls : (sq.calls[c].pc # "idle") ~> (sq.calls[c].pc = "returned")

----------------------------------------------------------------------------
(* One call of a source adapter: searchYelp, searchFoursquare,               *)
(* searchTripAdvisor, or BaseScraper.scrape of one of the scrapers           *)

\* How the browser behaves during one scrape: parseResults gives a review
\* ("data"), a review whose rating is NaN ("nan") or null ("nodata"), or init,
\* goto or parseResults throws.
ScraperEnv == [platform : ScraperMap, outcome : {"data", "nan", "nodata", "throw"}]

AdapterCalls ==
    UNION {{[pc |-> "called", adapter |-> a, env |-> e, result |-> Pending] : e \in EnvOf(a)}
           : a \in Api}
    \cup {[pc |-> "called", adapter |-> "scraper", env |-> e, result |-> Pending]
           : e \in ScraperEnv}

\* The promise of the API adapter settles.
SearchReturns ==
    /\ ad.pc = "called"
    /\ ad.adapter \in Api
    /\ ad' = [ad EXCEPT !.pc = "done", !.result = Search(ad.adapter, ad.env)]

\* The promise of scraper.scrape settles.
ScrapeReturns ==
    /\ ad.pc = "called"
    /\ ad.adapter = "scraper"
    /\ ad' = [ad EXCEPT !.pc = "done", !.result = Scrape(ad.env.platform, ad.env.outcome)]

InitAdapter ==
    /\ RouteOff
    /\ sq = Off
    /\ rk = Off
    /\ fn = Off
    /\ ad \in AdapterCalls

NextAdapter ==
    /\ \/ SearchReturns
       \/ ScrapeReturns
    /\ UNCHANGED <<req, pc, response, placesCalls, places, fa, scr, results, errors, sa, sq, rk, fn>>

SpecAdapter == InitAdapter /\ [][NextAdapter]_vars

----------------------------------------------------------------------------
(* One run of a filter and sort: rankRestaurants, the nearby branch of POST, *)
(* or the demo route                                                         *)

MaxCandidates == 3

\* Weekly periods that cover, and do not cover, PlannedDate.
OpenSchedule ==
    <<[openDay |-> 1, openTime |-> 900, hasClose |-> TRUE, closeDay |-> 1, closeTime |-> 1700]>>

ClosedSchedule ==
    <<[openDay |-> 2, openTime |-> 1800, hasClose |-> TRUE, closeDay |-> 3, closeTime |-> 200]>>

\* What a candidate can look like to each of the three, o being the options
\* of the run.  isOpenNow is the open flag (isOpen of RankedRestaurant,
\* isOpenNow of Restaurant), a boolean for rankRestaurants and the demo
\* route, possibly undefined for the nearby branch, which for a later time
\* reads the venue's periods (possibly none) instead.  Travel time is below
\* or above the ceiling of 20 minutes; the demo route computes none when the
\* request has no location.
CandidatePool(o) ==
    {c \in [isOpenNow : {"true", "false", "undefined"},
            openingHours : {OpenSchedule, ClosedSchedule, <<>>},
            travelTimeMin : {Undefined, 10, 30},
            isExceptional : BOOLEAN,
            valueScore : {300, 400}] :
        /\ c.travelTimeMin = Undefined <=> (o.variant = "demo" /\ ~o.hasLocation)
        /\ c.isExceptional => c.travelTimeMin # 10
        /\ IF o.variant = "route" /\ ~o.isNow
           THEN c.isOpenNow = "false"
           ELSE /\ c.openingHours = OpenSchedule
                /\ o.variant # "route" => c.isOpenNow # "undefined"}

\* An input list: element i has id i.
WithIds(f) == [i \in DOMAIN f |-> [id |-> i] @@ f[i]]

\* The options each of the three reads: rankRestaurants none, the nearby
\* branch isNow, the demo route openNowOnly and the presence of a location.
RankOptions ==
    {o \in [variant : {"rank", "route", "demo"}, isNow : BOOLEAN,
            openNowOnly : BOOLEAN, hasLocation : BOOLEAN] :
        /\ o.variant # "route" => o.isNow
        /\ o.variant # "demo" => (o.openNowOnly /\ o.hasLocation)}

\* rankRestaurants(restaurants, config)
RankApply ==
    /\ rk.pc = "input"
    /\ rk.variant = "rank"
    /\ rk' = [rk EXCEPT !.pc = "ranked",
                        !.output = RankRestaurants(rk.input, DefaultMaxTravelTimeMin)]

\* The filter and sort of the nearby branch; places are the venues the
\* restaurants were built from.
RouteApply ==
    /\ rk.pc = "input"
    /\ rk.variant = "route"
    /\ LET ps == [i \in 1..Len(rk.input) |->
                    [placeId |-> rk.input[i].id, openingHours |-> rk.input[i].openingHours]]
       IN rk' = [rk EXCEPT !.pc = "ranked",
                           !.output = RouteRank(rk.input, ps, rk.isNow, PlannedDate,
                                                DefaultMaxTravelTimeMin)]

\* The filter and sort of the demo route.
DemoApply ==
    /\ rk.pc = "input"
    /\ rk.variant = "demo"
    /\ rk' = [rk EXCEPT !.pc = "ranked",
                        !.output = DemoRank(rk.input, rk.openNowOnly, rk.hasLocation,
                                            DefaultMaxTravelTimeMin)]

InitRank ==
    /\ RouteOff
    /\ sq = Off
    /\ ad = Off
    /\ fn = Off
    /\ \E o \in RankOptions, n \in 0..MaxCandidates :
         \E f \in [1..n -> CandidatePool(o)] :
            rk = [pc |-> "input", variant |-> o.variant, input |-> WithIds(f),
                  isNow |-> o.isNow, openNowOnly |-> o.openNowOnly,
                  hasLocation |-> o.hasLocation, output |-> <<>>]

NextRank ==
    /\ \/ RankApply
       \/ RouteApply
       \/ DemoApply
    /\ UNCHANGED <<req, pc, response, placesCalls, places, fa, scr, results, errors, sa, sq, ad, fn>>

SpecRank == InitRank /\ [][NextRank]_vars

-----------------------------------------------------------------------------
(* One call of isOpenAtTime (src/lib/places.ts) on a list of weekly periods *)

MaxPeriods == 2

\* OpeningHoursPeriod: opening on Saturday (6) or Sunday (0), close absent, or
\* on the opening day, the day after or two days after.
PeriodPool ==
    {p \in [openDay : {6, 0}, openTime : {900, 1800}, hasClose : BOOLEAN,
            closeDay : {6, 0, 1, 2}, closeTime : {0, 200, 1700}] :
        IF p.hasClose
        THEN /\ p.closeDay \in {p.openDay, (p.openDay + 1) % 7, (p.openDay + 2) % 7}
             /\ p.closeTime # 0
        ELSE p.closeDay = p.openDay /\ p.closeTime = 0}

\* targetDate: getDay() and the clock as HHMM, on a Sunday or a Monday.
PeriodInstants == [day : {0, 1}, time : {100, 200, 900, 1700, 1800, 2300}]

\* return of isOpenAtTime(openingHours, targetDate)
IsOpenAtTimeReturns ==
    /\ fn.pc = "called"
    /\ fn.op = "isOpenAtTime"
    /\ fn' = [fn EXCEPT !.pc = "done", !.result = IsOpenAtTime(fn.periods, fn.t)]

InitPeriods ==
    /\ RouteOff
    /\ sq = Off
    /\ rk = Off
    /\ ad = Off
    /\ \E n \in 0..MaxPeriods, t \in PeriodInstants :
         \E ps \in [1..n -> PeriodPool] :
            fn = [pc |-> "called", op |-> "isOpenAtTime", periods |-> ps, t |-> t,
                  result |-> FALSE]

NextPeriods ==
    /\ IsOpenAtTimeReturns
    /\ UNCHANGED <<req, pc, response, placesCalls, places, fa, scr, results, errors, sa, sq, rk, ad>>

SpecPeriods == InitPeriods /\ [][NextPeriods]_vars

-----------------------------------------------------------------------------
(* Open status from free-text hours: checkIfOpen (src/lib/ranking.ts) and   *)
(* the hours check of the demo route, next to isOpenAtTime on the same      *)
(* schedule                                                                  *)

\* const dayNames = ['Sun', 'Mon', 'Tue', 'Wed', 'Thu', 'Fri', 'Sat']
DayNames == <<"Sun", "Mon", "Tue", "Wed", "Thu", "Fri", "Sat">>

\* The text of an entry after its day name, by what the two functions look
\* for in it: the word 'closed', the words '24 hours', a range
\* 'h:mm AM - h:mm PM' (the groups of the regular expression of checkIfOpen),
\* or none of them.  In a range the minutes may be missing (Undefined) and
\* AM/PM may be missing ("") or written in lower case; minutes follow a colon.
HoursText(kind, oh, om, oap, ch, cm, cap) ==
    [kind |-> kind, oh |-> oh, om |-> om, oap |-> oap, ch |-> ch, cm |-> cm, cap |-> cap]

ClosedText == HoursText("closed", 0, 0, "", 0, 0, "")
AllDayText == HoursText("24 hours", 0, 0, "", 0, 0, "")
OtherText == HoursText("other", 0, 0, "", 0, 0, "")

\* Texts of the demo data, each range with the weekly period that states the
\* same hours: 'Closed', 'Open 24 hours', '10:00 AM - 2:00 AM',
\* '11:00 AM - 10:00 PM', '9:00 AM - 12:00 AM', '12:00 PM - 8:00 PM', and a
\* text that is none of these.
HoursPool ==
    { [text |-> ClosedText, openTime |-> 0, closeTime |-> 0, nextDay |-> FALSE],
      [text |-> AllDayText, openTime |-> 0, closeTime |-> 0, nextDay |-> FALSE],
      [text |-> OtherText, openTime |-> 0, closeTime |-> 0, nextDay |-> FALSE],
      [text |-> HoursText("range", 10, 0, "AM", 2, 0, "AM"),
       openTime |-> 1000, closeTime |-> 200, nextDay |-> TRUE],
      [text |-> HoursText("range", 11, 0, "AM", 10, 0, "PM"),
       openTime |-> 1100, closeTime |-> 2200, nextDay |-> FALSE],
      [text |-> HoursText("range", 9, 0, "AM", 12, 0, "AM"),
       openTime |-> 900, closeTime |-> 0, nextDay |-> TRUE],
      [text |-> HoursText("range", 12, 0, "PM", 8, 0, "PM"),
       openTime |-> 1200, closeTime |-> 2000, nextDay |-> FALSE] }

\* One entry of hours: 'Mon: 10:00 AM - 2:00 AM'.
HoursEntry(day, text) == [day |-> day, text |-> text]

\* No entry (undefined).
NoEntry == HoursEntry("", OtherText)

\* openUntil: undefined, '24 hours', or `${h}:${mm} ${AM|PM}`.
NoOpenUntil == [kind |-> "undefined", h |-> 0, m |-> 0, ap |-> ""]
OpenUntil24 == [kind |-> "24 hours", h |-> 0, m |-> 0, ap |-> ""]
OpenUntilTime(h, m, ap) == [kind |-> "time", h |-> h, m |-> m, ap |-> ap]

\* What a resolver returns, with the entry it read (todayHours).
OpenStatus(isOpen, openUntil, todayHours) ==
    [isOpen |-> isOpen, openUntil |-> openUntil, todayHours |-> todayHours]

\* parseTime of checkIfOpen, and the same conversion written out in the demo
\* route: minutes since midnight of h:mm AM/PM; a missing minute counts 0, and
\* AM/PM is compared in upper case.
ParseTime(hour, minute, ampm) ==
    LET upper == IF ampm \in {"pm", "Pm", "pM"} THEN "PM"
                 ELSE IF ampm \in {"am", "Am", "aM"} THEN "AM"
                 ELSE ampm
        h == IF upper = "PM" /\ hour # 12 THEN hour + 12
             ELSE IF upper = "AM" /\ hour = 12 THEN 0
             ELSE hour
    IN h * 60 + (IF minute = Undefined THEN 0 ELSE minute)

\* checkIfOpen(hours, currentTime); currentTime is [day, hour, minute], day
\* being getDay() (0 is Sunday).  openUntil is
\* `${timeMatch[4]}:${timeMatch[5] || '00'} ${timeMatch[6] || 'PM'}`.
CheckIfOpen(hours, currentTime) ==
    LET dayOfWeek == currentTime.day
        currentTimeNum == currentTime.hour * 60 + currentTime.minute
        found == {i \in 1..Len(hours) : hours[i].day = DayNames[dayOfWeek + 1]}
    IN IF Len(hours) = 0 THEN OpenStatus(TRUE, NoOpenUntil, NoEntry)
       ELSE IF found = {} THEN OpenStatus(TRUE, NoOpenUntil, NoEntry)
       ELSE LET todayHours == hours[CHOOSE i \in found : \A j \in found : i <= j]
                text == todayHours.text
                openTime == ParseTime(text.oh, text.om, text.oap)
                closeTime == ParseTime(text.ch, text.cm, text.cap)
                isOpen == currentTimeNum >= openTime /\ currentTimeNum < closeTime
            IN IF text.kind = "closed" THEN OpenStatus(FALSE, NoOpenUntil, todayHours)
               ELSE IF text.kind # "range" THEN OpenStatus(TRUE, NoOpenUntil, todayHours)
               ELSE OpenStatus(isOpen,
                               IF isOpen
                               THEN OpenUntilTime(text.ch,
                                                  IF text.cm = Undefined THEN 0 ELSE text.cm,
                                                  IF text.cap = "" THEN "PM" ELSE text.cap)
                               ELSE NoOpenUntil,
                               todayHours)

\* The hours check of the demo route: todayHours = data.hours[dayOfWeek].  Its
\* regular expression asks for the minutes and for AM or PM on both sides of
\* the range; a range without them is not parsed and the venue counts as open.
DemoCheckOpen(hours, currentTime) ==
    LET dayOfWeek == currentTime.day
        todayHours == hours[dayOfWeek + 1]
        text == todayHours.text
        timeMatch == /\ text.kind = "range"
                     /\ text.om # Undefined /\ text.cm # Undefined
                     /\ text.oap # "" /\ text.cap # ""
        openTimeNum == ParseTime(text.oh, text.om, text.oap)
        closeParsed == ParseTime(text.ch, text.cm, text.cap)
        closeTimeNum == IF closeParsed < openTimeNum THEN closeParsed + 24 * 60
                        ELSE closeParsed
        currentTimeNum == currentTime.hour * 60 + currentTime.minute
        isOpenNow == currentTimeNum >= openTimeNum /\ currentTimeNum < closeTimeNum
    IN IF text.kind = "closed" THEN OpenStatus(FALSE, NoOpenUntil, todayHours)
       ELSE IF text.kind = "24 hours" THEN OpenStatus(TRUE, OpenUntil24, todayHours)
       ELSE IF timeMatch
            THEN OpenStatus(isOpenNow,
                            IF isOpenNow THEN OpenUntilTime(text.ch, text.cm, text.cap)
                            ELSE NoOpenUntil,
                            todayHours)
       ELSE OpenStatus(TRUE, NoOpenUntil, todayHours)

\* The day (0 is Sunday) of the entry at position i of a week's table that
\* starts with Sunday (generateRandomRestaurant) or with Monday
\* (DEMO_RESTAURANTS).
DayAt(order, i) == IF order = "SunFirst" THEN i - 1 ELSE i % 7

\* Instants: any day of the week at 01:00, 02:00, 10:00, 12:00, 22:00, 23:00.
TextInstants == [day : 0..6, hour : {1, 2, 10, 12, 22, 23}, minute : {0}]

\* return of checkIfOpen(hours, currentTime)
CheckIfOpenReturns ==
    /\ fn.pc = "called"
    /\ fn.op = "openStatus"
    /\ "checkIfOpen" \notin fn.done
    /\ fn' = [fn EXCEPT !.done = @ \cup {"checkIfOpen"},
                        !.text = CheckIfOpen(fn.hours, fn.t)]

\* The demo route has computed isOpenNow and openUntil of a venue of its
\* data, whose table has an entry for each day of the week.
DemoCheckReturns ==
    /\ fn.pc = "called"
    /\ fn.op = "openStatus"
    /\ "demo" \notin fn.done
    /\ Len(fn.hours) = 7
    /\ fn' = [fn EXCEPT !.done = @ \cup {"demo"},
                        !.demo = DemoCheckOpen(fn.hours, fn.t)]

\* return of isOpenAtTime on the periods that state the same schedule, for
\* the same instant.
IsOpenAtTimeOnSchedule ==
    /\ fn.pc = "called"
    /\ fn.op = "openStatus"
    /\ "isOpenAtTime" \notin fn.done
    /\ fn.both
    /\ fn' = [fn EXCEPT !.done = @ \cup {"isOpenAtTime"},
                        !.structured =
                            IsOpenAtTime(fn.periods,
                                         [day |-> fn.t.day,
                                          time |-> fn.t.hour * 100 + fn.t.minute])]

\* A week's table in either order with the same hours every day but one, a
\* table with Monday's entry alone, or no table; with the weekly periods of
\* the same schedule when every day has a range.
InitText ==
    /\ RouteOff
    /\ sq = Off
    /\ rk = Off
    /\ ad = Off
    /\ \E base \in HoursPool, special \in HoursPool, d \in 0..6,
          order \in {"SunFirst", "MonFirst"}, shape \in {"week", "monday", "none"},
          t \in TextInstants :
         LET at(i) == IF DayAt(order, i) = d THEN special ELSE base
             week == [i \in 1..7 |-> HoursEntry(DayNames[DayAt(order, i) + 1], at(i).text)]
             both == shape = "week" /\ base.text.kind = "range"
                     /\ special.text.kind = "range"
             periods == [i \in 1..7 |->
                           [openDay |-> DayAt(order, i), openTime |-> at(i).openTime,
                            hasClose |-> TRUE,
                            closeDay |-> IF at(i).nextDay THEN (DayAt(order, i) + 1) % 7
                                         ELSE DayAt(order, i),
                            closeTime |-> at(i).closeTime]]
         IN /\ shape # "week" => (special = base /\ d = 0 /\ order = "SunFirst")
            /\ fn = [pc |-> "called", op |-> "openStatus",
                     hours |-> CASE shape = "week" -> week
                                 [] shape = "monday" -> <<HoursEntry("Mon", base.text)>>
                                 [] OTHER -> <<>>,
                     t |-> t, both |-> both,
                     periods |-> IF both THEN periods ELSE <<>>,
                     done |-> {},
                     text |-> OpenStatus(FALSE, NoOpenUntil, NoEntry),
                     demo |-> OpenStatus(FALSE, NoOpenUntil, NoEntry),
                     structured |-> FALSE]

NextText ==
    /\ \/ CheckIfOpenReturns
       \/ DemoCheckReturns
       \/ IsOpenAtTimeOnSchedule
    /\ UNCHANGED <<req, pc, response, placesCalls, places, fa, scr, results, errors, sa, sq, rk, ad>>

SpecText == InitText /\ [][NextText]_vars

-----------------------------------------------------------------------------
(* getPlannedDate of POST: src/app/api/search/route.ts *)

\* A Date by its calendar day counted from today (0 is today, 1 tomorrow) and
\* its clock.
PlanDate(day, hour, minute) == [day |-> day, hour |-> hour, minute |-> minute]

\* getPlannedDate that never moves the target to the next day.
GetPlannedDateToday(time, now) ==
    CASE time = "breakfast" -> PlanDate(now.day, 8, 0)
      [] time = "lunch" -> PlanDate(now.day, 12, 0)
      [] time = "dinner" -> PlanDate(now.day, 19, 0)
      [] time = "tomorrow_lunch" -> PlanDate(now.day + 1, 12, 0)
      [] time = "tomorrow_dinner" -> PlanDate(now.day + 1, 19, 0)
      [] OTHER -> now

\* getPlannedDate(time), now being new Date().
GetPlannedDate(time, now) ==
    LET currentHour == now.hour
    IN CASE time = "breakfast" ->
              PlanDate(IF currentHour >= 10 THEN now.day + 1 ELSE now.day, 8, 0)
         [] time = "lunch" ->
              PlanDate(IF currentHour >= 14 THEN now.day + 1 ELSE now.day, 12, 0)
         [] time = "dinner" ->
              PlanDate(IF currentHour >= 21 THEN now.day + 1 ELSE now.day, 19, 0)
         [] time = "tomorrow_lunch" -> PlanDate(now.day + 1, 12, 0)
         [] time = "tomorrow_dinner" -> PlanDate(now.day + 1, 19, 0)
         [] OTHER -> now

\* plannedTime of the request body.
PlannedTimes == {"now", "breakfast", "lunch", "dinner", "tomorrow_lunch", "tomorrow_dinner"}

\* const plannedDate = getPlannedDate(plannedTime)
GetPlannedDateReturns ==
    /\ fn.pc = "called"
    /\ fn.op = "getPlannedDate"
    /\ fn' = [fn EXCEPT !.pc = "done", !.result = GetPlannedDate(fn.time, fn.now)]

InitPlan ==
    /\ RouteOff
    /\ sq = Off
    /\ rk = Off
    /\ ad = Off
    /\ \E time \in PlannedTimes, hour \in 0..23, minute \in {0, 30} :
         fn = [pc |-> "called", op |-> "getPlannedDate", time |-> time,
               now |-> PlanDate(0, hour, minute), result |-> PlanDate(0, 0, 0)]

NextPlan ==
    /\ GetPlannedDateReturns
    /\ UNCHANGED <<req, pc, response, placesCalls, places, fa, scr, results, errors, sa, sq, rk, ad>>

SpecPlan == InitPlan /\ [][NextPlan]_vars

-----------------------------------------------------------------------------------------------------------------------------------------------------
(* Calls of the pure functions of src/lib/scoring.ts and src/lib/ranking.ts: *)
(* calculateAggregatedScore and calculateConfidence on a list of signals,    *)
(* calculateValueScore at two travel times, isExceptionalRestaurant          *)

MaxSignals == 3

\* The longest list calculateConfidence is called with; above four signals
\* reviews.length / 4 exceeds 1.
MaxConfidenceSignals == 5

MaxTravelTime == 12

\* return of calculateAggregatedScore(reviews, config)
AggregatedScoreReturns ==
    /\ fn.pc = "called"
    /\ fn.op = "score"
    /\ fn' = [fn EXCEPT !.pc = "returned",
                        !.result = CalculateAggregatedScore(fn.reviews, fn.config)]

\* return of calculateConfidence(reviews)
ConfidenceReturns ==
    /\ fn.pc = "called"
    /\ fn.op = "confidence"
    /\ fn' = [fn EXCEPT !.pc = "returned", !.result = CalculateConfidence(fn.reviews)]

\* return of calculateValueScore(rating, travelTimeMin, maxTravelTimeMin,
\* isExceptional) for the next of the travel times asked; results holds the
\* value scores returned so far.
ValueScoreReturns ==
    /\ fn.pc = "called"
    /\ fn.op = "value"
    /\ fn' = [fn EXCEPT !.results = Append(@, CalculateValueScore(
                                                  fn.rating, fn.times[Len(fn.results) + 1],
                                                  fn.maxTravelTimeMin, fn.isExceptional)),
                        !.pc = IF Len(fn.results) + 1 = Len(fn.times) THEN "returned"
                               ELSE "called"]

\* return of isExceptionalRestaurant(restaurant)
IsExceptionalReturns ==
    /\ fn.pc = "called"
    /\ fn.op = "exceptional"
    /\ fn' = [fn EXCEPT !.pc = "returned",
                        !.result = IsExceptionalRestaurant(fn.aggregatedScore, fn.reviews,
                                                          HasSpecialIndicator(fn.name))]

\* A call of one of the four functions with its arguments.
InitScore ==
    LET
        \* PlatformReview: ratings 2.2, 3.5, 4.1 and 5.0, review counts 0, 1, 2 and
        \* 1000.
        SignalPool ==
            { [platform |-> "google", rating |-> 50, reviewCount |-> 2],
              [platform |-> "google", rating |-> 50, reviewCount |-> 1000],
              [platform |-> "yelp", rating |-> 35, reviewCount |-> 0],
              [platform |-> "foursquare", rating |-> 22, reviewCount |-> 1],
              [platform |-> "zomato", rating |-> 41, reviewCount |-> 1] }

        \* PlatformReview at the ends of its ranges: ratings 0 and 5.0, review counts
        \* 0 and 1000.  Ratings 0 and 5.0 in one list give a variance above 2, a
        \* count of 1000 a total whose log10 exceeds 3, counts of 0 the total 0.
        LimitPool ==
            { [platform |-> "google", rating |-> 50, reviewCount |-> 1000],
              [platform |-> "yelp", rating |-> 50, reviewCount |-> 0],
              [platform |-> "tripadvisor", rating |-> 0, reviewCount |-> 0] }

        \* WeightingConfig: every strategy and a value that is none of them; for
        \* bayesian_average the prior 0 or 3.5 and the pseudo-count 0 or 10; for
        \* platform_trust the default weights, the weight 0 for every source, or the
        \* weight 0 for google alone.
        ConfigPool ==
            {c \in [strategy : {"simple_average", "review_count_weighted", "bayesian_average",
                                "confidence_weighted", "platform_trust", "other"},
                    bayesianPrior : {0, 35},
                    bayesianMinReviews : {0, 10},
                    platformWeights : {DefaultPlatformWeights, [q \in Platform |-> 0],
                                       [q \in {"google"} |-> 0]}] :
                /\ c.strategy # "bayesian_average" =>
                      (c.bayesianPrior = 35 /\ c.bayesianMinReviews = 10)
                /\ c.strategy # "platform_trust" => c.platformWeights = DefaultPlatformWeights}

        \* Restaurant.name as its characters, each with whether it holds one of the
        \* special indicators in some case.
        NamePool ==
            { [name |-> <<"C", "a", "f", "e">>, special |-> FALSE],
              [name |-> <<"J", "a", "m", "e", "s">>, special |-> FALSE],
              [name |-> <<"A", "W", "A", "R", "D", "S">>, special |-> TRUE],
              [name |-> <<"L", "e", " ", "M", "i", "c", "h", "e", "l", "i", "n">>, special |-> TRUE],
              [name |-> <<"J", "a", "m", "e", "s", " ", "B", "E", "A", "R", "D">>, special |-> TRUE],
              [name |-> <<"u", "n", "s", "t", "a", "r", "r", "e", "d">>, special |-> TRUE] }

        \* The reviews of a restaurant whose exceptional status is asked: up to two
        \* signals, with totals of 199, 200, 250, 500 and more.
        CountedPool ==
            { [platform |-> "google", rating |-> 49, reviewCount |-> 199],
              [platform |-> "yelp", rating |-> 49, reviewCount |-> 1],
              [platform |-> "google", rating |-> 49, reviewCount |-> 250],
              [platform |-> "yelp", rating |-> 47, reviewCount |-> 250],
              [platform |-> "tripadvisor", rating |-> 47, reviewCount |-> 10000] }
    IN
    /\ RouteOff
    /\ sq = Off
    /\ rk = Off
    /\ ad = Off
    /\ \/ \E n \in 0..MaxSignals, config \in ConfigPool :
            \E reviews \in [1..n -> SignalPool] :
               fn = [pc |-> "called", op |-> "score", reviews |-> reviews,
                     config |-> config, result |-> 0]
       \/ \E n \in 0..MaxSignals :
            \E reviews \in [1..n -> SignalPool] :
               fn = [pc |-> "called", op |-> "confidence", reviews |-> reviews, result |-> 0]
       \/ \E n \in 0..MaxConfidenceSignals :
            \E reviews \in [1..n -> LimitPool] :
               fn = [pc |-> "called", op |-> "confidence", reviews |-> reviews, result |-> 0]
       \/ \E rating \in {0, 353, 455, 500}, maxTravelTimeMin \in {2, 10},
             isExceptional \in BOOLEAN, t1 \in 0..MaxTravelTime, t2 \in 0..MaxTravelTime :
            /\ t1 <= t2
            /\ fn = [pc |-> "called", op |-> "value", rating |-> rating,
                     maxTravelTimeMin |-> maxTravelTimeMin, isExceptional |-> isExceptional,
                     times |-> <<t1, t2>>, results |-> <<>>]
       \/ \E aggregatedScore \in {470, 480, 489, 490}, n \in 0..2, named \in NamePool :
            \E reviews \in [1..n -> CountedPool] :
               fn = [pc |-> "called", op |-> "exceptional",
                     aggregatedScore |-> aggregatedScore, reviews |-> reviews,
                     name |-> named.name, special |-> named.special, result |-> FALSE]

NextScore ==
    /\ \/ AggregatedScoreReturns
       \/ ConfidenceReturns
       \/ ValueScoreReturns
       \/ IsExceptionalReturns
    /\ UNCHANGED <<req, pc, response, placesCalls, places, fa, scr, results, errors, sa, sq, rk, ad>>

SpecScore == InitScore /\ [][NextScore]_vars

----------------------------------------------------------------------------
(* Properties of the POST handler and its orchestrators (Spec) *)

\* C1: when the scrape of a requested platform threw or reported failure, the
\* platform is a key of errors, none of the results is its review, and the
\* same call of scrapeAllPlatforms still returns what the other platforms
\* gave: the call does not reject, and once it has returned every other
\* requested platform is found in results or in errors.
C1_FailureIsolatedAndReturned ==
    \A p \in Range(req.platforms) :
        scr[p].scraped = "failed" =>
            /\ p \in DOMAIN errors
            /\ \A i \in 1..Len(results) : results[i].platform # p
            /\ sa # "rejected"
            /\ sa = "returned" =>
                 \A q \in Range(req.platforms) \ {p} :
                    \/ q \in DOMAIN errors
                    \/ \E i \in 1..Len(results) : results[i].platform = q

\* C3: once a call of fetchAllPlatformReviews has returned, its reviews are
\* the same in every later state, whatever its adapters settle with
\* afterwards; likewise results and errors once scrapeAllPlatforms has
\* returned, and the response once it has been sent.
C3_ReturnedResultFrozen ==
    [][ /\ \A i \in 1..Len(fa) :
             fa[i].st = "returned" =>
                 /\ i \in 1..Len(fa')
                 /\ fa'[i].st = "returned"
                 /\ fa'[i].reviews = fa[i].reviews
        /\ sa = "returned" => (sa' = "returned" /\ results' = results /\ errors' = errors)
        /\ pc = "done" => response' = response ]_vars

\* A call has returned, one of its adapters had been timed out, and that
\* adapter has settled since.
C3_Witness ==
    \E i \in 1..Len(fa), a \in Api :
        /\ fa[i].st = "returned"
        /\ fa[i].race[a].by = "timer"
        /\ fa[i].adapter[a] = "resolved"

\* C4: an adapter whose timer fired first is absent and not an error: its
\* race settled with null, the call is not rejected and returns as soon as
\* every race has settled, none of the returned reviews is of that source,
\* and the response is a 200 without an error entry for it.
C4_TimeoutIsAbsent ==
    \A i \in 1..Len(fa), a \in Api :
        fa[i].race[a].by = "timer" =>
            /\ fa[i].race[a].val = Absent
            /\ fa[i].st # "rejected"
            /\ (\A b \in Api : fa[i].race[b].val # Pending) => fa[i].st = "returned"
            /\ \A k \in 1..Len(fa[i].reviews) : fa[i].reviews[k].platform # a
            /\ pc = "done" => (response.status = 200 /\ a \notin DOMAIN response.errors)

\* A returned call with a timed-out adapter and a review of another source.
C4_Witness ==
    \E i \in 1..Len(fa), a \in Api :
        /\ fa[i].race[a].by = "timer"
        /\ fa[i].st = "returned"
        /\ Len(fa[i].reviews) > 0
        /\ pc = "done"

\* C6: the request fails only on malformed input (an unparsable body, a
\* nearby search without location) or when searchNearbyPlaces failed; every
\* other run ends with a 200.
C6_FailsOnlyOnMalformedOrUpstream ==
    (pc = "done" /\ response.status # 200) =>
        \/ req.body = "unparsable"
        \/ req.nearby /\ (~req.hasLat \/ ~req.hasLon) /\ response.status = 400
        \/ req.nearby /\ placesCalls > 0 /\ fa = <<>>

\* C7: in a nearby search without userLat or userLon, searchNearbyPlaces is
\* never called, no fetchAllPlatformReviews call and no scraper is started,
\* and the response is the 400.
C7_RejectedBeforeFetch ==
    (req.body = "ok" /\ req.nearby /\ (~req.hasLat \/ ~req.hasLon)) =>
        /\ placesCalls = 0
        /\ fa = <<>>
        /\ sa = "idle"
        /\ \A p \in Platform : scr[p].st = "none"
        /\ pc = "done" => response.status = 400

\* The 400 has been sent for a request with only one of the coordinates.
C7_Witness ==
    /\ pc = "done"
    /\ req.nearby
    /\ req.hasLat # req.hasLon
    /\ response.status = 400

\* C8: a 200 response carries an errors map naming every source that
\* failed: every requested platform whose scrape failed or that has no
\* scraper, and every API source whose call met an error.
C8_ErrorsAccompanyResponse ==
    (pc = "done" /\ response.status = 200) =>
        /\ \A p \in Range(req.platforms) :
              scr[p].scraped \in {"failed", "unknown"} =>
                  (response.hasErrors /\ p \in DOMAIN response.errors)
        /\ \A i \in 1..Len(fa) : \A a \in fa[i].failed :
              fa[i].st = "returned" => (response.hasErrors /\ a \in DOMAIN response.errors)

\* C22: the response to a specific-venue request that supplies the user's
\* location (userLat and userLon) carries a computed value score.
C22_SpecificCarriesValueScore ==
    (/\ response.status = 200
     /\ response.kind = "restaurant"
     /\ req.hasLat
     /\ req.hasLon) => response.valueScore # Undefined

----------------------------------------------------------------------------
(* Properties of the source adapters (SpecAdapter) *)

\* The promise of an adapter is never rejected: every await of the three API
\* adapters and of BaseScraper.scrape is inside a try block whose catch returns.
AdaptersNeverReject ==
    ad.pc = "done" =>
        IF ad.adapter \in Api THEN ad.result # Thrown ELSE ad.result.kind = "result"

\* C5: a source adapter never raises: searchYelp, searchFoursquare and
\* searchTripAdvisor never reject and give null in every failure mode (no API
\* key, network exception, non-OK status, empty result list, unparsable
\* rating), and BaseScraper.scrape never rejects and gives success=false in
\* every failure mode (an exception, no review, a review without a parsable
\* rating).
C5_AdaptersNeverRaise ==
    ad.pc = "done" =>
        IF ad.adapter \in Api
        THEN /\ ad.result # Thrown
             /\ FailureMode(ad.adapter, ad.env) => ad.result = Absent
        ELSE /\ ad.result.kind = "result"
             /\ ad.env.outcome # "data" => ~ad.result.success

----------------------------------------------------------------------------
(* Properties of the filters and sorts (SpecRank) *)

\* C9: whichever of the three ran and whatever the request options, every
\* candidate of the output is open at the reference instant: its open flag
\* is true, or, in the nearby branch for a later time, its periods cover
\* that time.
C9_OutputAllOpen ==
    rk.pc = "ranked" =>
        \A k \in 1..Len(rk.output) :
            IF rk.variant = "route" /\ ~rk.isNow
            THEN IsOpenAtTime(rk.output[k].openingHours, PlannedDate)
            ELSE rk.output[k].isOpenNow = "true"

\* C11: no candidate of the output is both over the travel-time ceiling and
\* not exceptional, and every candidate of the input that is open at the
\* reference instant and is within the ceiling or exceptional is in the
\* output.
C11_TravelOrExceptional ==
    rk.pc = "ranked" =>
        /\ \A k \in 1..Len(rk.output) :
              ~ /\ rk.output[k].travelTimeMin # Undefined
                /\ rk.output[k].travelTimeMin > DefaultMaxTravelTimeMin
                /\ ~rk.output[k].isExceptional
        /\ \A i \in 1..Len(rk.input) :
              LET c == rk.input[i]
                  open == IF rk.variant = "route" /\ ~rk.isNow
                          THEN IsOpenAtTime(c.openingHours, PlannedDate)
                          ELSE c.isOpenNow = "true"
                  near == c.travelTimeMin # Undefined
                          /\ c.travelTimeMin <= DefaultMaxTravelTimeMin
              IN (open /\ (near \/ c.isExceptional)) =>
                     \E k \in 1..Len(rk.output) : rk.output[k].id = c.id

\* An open candidate over the ceiling was dropped and an open exceptional
\* one over the ceiling was kept.
C11_Witness ==
    /\ rk.pc = "ranked"
    /\ \E i, j \in 1..Len(rk.input) :
          /\ rk.input[i].isOpenNow = "true"
          /\ rk.input[i].travelTimeMin = 30
          /\ ~rk.input[i].isExceptional
          /\ \A k \in 1..Len(rk.output) : rk.output[k].id # i
          /\ rk.input[j].travelTimeMin = 30
          /\ rk.input[j].isExceptional
          /\ \E k \in 1..Len(rk.output) : rk.output[k].id = j

\* C12: a candidate for which no hours data is available (unknown open flag
\* when the reference instant is now, no periods when it is later) is
\* resolved open: if it is within the travel ceiling or exceptional it is in
\* the output, never removed for lack of data.
C12_NoDataNeverRemoved ==
    rk.pc = "ranked" =>
        \A i \in 1..Len(rk.input) :
            LET c == rk.input[i]
                nodata == IF rk.variant = "route" /\ ~rk.isNow
                          THEN c.openingHours = <<>>
                          ELSE c.isOpenNow = "undefined"
                near == c.travelTimeMin # Undefined
                        /\ c.travelTimeMin <= DefaultMaxTravelTimeMin
            IN (nodata /\ (near \/ c.isExceptional)) =>
                   \E k \in 1..Len(rk.output) : rk.output[k].id = c.id

\* C10: the output is in descending order of valueScore, and of two
\* candidates with the same valueScore the one that came first in the input
\* comes first in the output.
C10_DescendingAndStable ==
    rk.pc = "ranked" =>
        \A i, j \in 1..Len(rk.output) :
            i < j =>
                /\ rk.output[i].valueScore >= rk.output[j].valueScore
                /\ rk.output[i].valueScore = rk.output[j].valueScore
                       => rk.output[i].id < rk.output[j].id

\* An output of three whose first two tie and stand before a candidate that
\* preceded them in the input.
C10_Witness ==
    /\ rk.pc = "ranked"
    /\ Len(rk.output) = 3
    /\ rk.output[1].valueScore = rk.output[2].valueScore
    /\ rk.output[2].valueScore > rk.output[3].valueScore
    /\ rk.output[3].id < rk.output[1].id

-----------------------------------------------------------------------------
(* Properties of isOpenAtTime (SpecPeriods) *)

\* C13 as stated: on a list of at least one period, isOpenAtTime(periods, t)
\* is true exactly when some period covers t: it opens and closes on t's day
\* and open <= t <= close, or it opens on t's day, closes the next day and
\* t >= open, or it opened the previous day, closes on t's day and t <= close.
C13_ExactlyWhenCovered ==
    (fn.pc = "done" /\ fn.op = "isOpenAtTime" /\ Len(fn.periods) > 0) =>
        (fn.result <=>
            \E i \in 1..Len(fn.periods) :
                LET p == fn.periods[i]
                    t == fn.t
                IN \/ /\ p.openDay = t.day /\ p.hasClose /\ p.closeDay = t.day
                      /\ p.openTime <= t.time /\ t.time <= p.closeTime
                   \/ /\ p.openDay = t.day /\ p.hasClose
                      /\ p.closeDay = (t.day + 1) % 7
                      /\ t.time >= p.openTime
                   \/ /\ p.openDay = (t.day + 6) % 7 /\ p.hasClose
                      /\ p.closeDay = t.day
                      /\ t.time <= p.closeTime)

\* C13 amended: on a list of at least one period, isOpenAtTime(periods, t) is
\* true exactly when some period covers t, where a period covers t if it
\* opens on t's day, has no close or closes that day, and open <= t <= close
\* (23:59 without a close), or it opens on t's day, closes on any other day
\* and t >= open, or it opened the previous day, closes on t's day and
\* t <= close.
C13_ExactlyWhenCoveredAmended ==
    (fn.pc = "done" /\ fn.op = "isOpenAtTime" /\ Len(fn.periods) > 0) =>
        (fn.result <=>
            \E i \in 1..Len(fn.periods) :
                LET p == fn.periods[i]
                    t == fn.t
                IN \/ /\ p.openDay = t.day /\ ~p.hasClose
                      /\ p.openTime <= t.time /\ t.time <= 2359
                   \/ /\ p.openDay = t.day /\ p.hasClose /\ p.closeDay = t.day
                      /\ p.openTime <= t.time /\ t.time <= p.closeTime
                   \/ /\ p.openDay = t.day /\ p.hasClose /\ p.closeDay # t.day
                      /\ t.time >= p.openTime
                   \/ /\ p.openDay = (t.day + 6) % 7 /\ p.hasClose
                      /\ p.closeDay = t.day
                      /\ t.time <= p.closeTime)

\* A Sunday instant found open only through the continuation of the period
\* opened on Saturday.
C13_Witness ==
    /\ fn.pc = "done"
    /\ fn.op = "isOpenAtTime"
    /\ fn.result
    /\ fn.t.day = 0
    /\ fn.t.time = 100
    /\ Len(fn.periods) = 2
    /\ \A i \in 1..2 : fn.periods[i].openDay = 6 /\ fn.periods[i].hasClose
    /\ fn.periods[1].closeDay = 0
    /\ fn.periods[2].closeDay = 6

-----------------------------------------------------------------------------
(* Properties of the resolvers of free-text hours (SpecText) *)

\* C14: when the entry a free-text resolver read is a range, with open and
\* close in minutes since midnight and 24 hours added to the close if it is
\* below the open, the venue is reported open iff the instant is in
\* [open, close): with 10:00 AM - 2:00 AM it is open at 23:00.
C14_RangeCrossesMidnight ==
    \A r \in fn.done \cap {"checkIfOpen", "demo"} :
        LET res == IF r = "checkIfOpen" THEN fn.text ELSE fn.demo
            text == res.todayHours.text
            open == ParseTime(text.oh, text.om, text.oap)
            parsed == ParseTime(text.ch, text.cm, text.cap)
            close == IF parsed < open THEN parsed + 24 * 60 ELSE parsed
            now == fn.t.hour * 60 + fn.t.minute
        IN text.kind = "range" => (res.isOpen <=> (open <= now /\ now < close))

\* C15: with the entry 'Mon: 10:00 AM - 2:00 AM' a free-text resolver reports
\* closed on Monday at 01:00, unless Sunday's entry runs past midnight, and
\* open on Tuesday at 01:00, under Monday's period.  Stated for the runs in
\* which the resolver read the entry named after the instant's weekday, or
\* found none.
C15_OvernightBothDirections ==
    \A r \in fn.done \cap {"checkIfOpen", "demo"} :
        LET res == IF r = "checkIfOpen" THEN fn.text ELSE fn.demo
            entry(day) == {fn.hours[i].text : i \in {j \in 1..Len(fn.hours) :
                                                        fn.hours[j].day = day}}
            overnight(text) == text.kind = "range"
                               /\ ParseTime(text.ch, text.cm, text.cap)
                                    < ParseTime(text.oh, text.om, text.oap)
        IN (/\ entry("Mon") = {HoursText("range", 10, 0, "AM", 2, 0, "AM")}
            /\ res.todayHours.day \in {DayNames[fn.t.day + 1], ""}) =>
              /\ (fn.t.day = 1 /\ fn.t.hour = 1
                    /\ \A text \in entry("Sun") : ~overnight(text)) => ~res.isOpen
              /\ (fn.t.day = 2 /\ fn.t.hour = 1) => res.isOpen

\* C16: the entry a free-text resolver reads is the one whose day name is the
\* name of the instant's weekday, whatever the order of the table.
C16_EntryOfTheWeekday ==
    \A r \in fn.done \cap {"checkIfOpen", "demo"} :
        LET res == IF r = "checkIfOpen" THEN fn.text ELSE fn.demo
        IN (\E i \in 1..Len(fn.hours) : fn.hours[i].day = DayNames[fn.t.day + 1]) =>
               res.todayHours.day = DayNames[fn.t.day + 1]

\* C17: when the entry read says 'Closed' the venue is reported not open, and
\* when it says 'Open 24 hours' it is reported open with openUntil
\* '24 hours', at every time.
C17_ClosedAndAllDay ==
    \A r \in fn.done \cap {"checkIfOpen", "demo"} :
        LET res == IF r = "checkIfOpen" THEN fn.text ELSE fn.demo
        IN /\ res.todayHours.text.kind = "closed" => ~res.isOpen
           /\ res.todayHours.text.kind = "24 hours" =>
                 (res.isOpen /\ res.openUntil = OpenUntil24)

\* C18: for a schedule stated both as weekly periods and as free text, and
\* any instant, isOpenAtTime and the free-text resolvers give the same
\* answer.
C18_ResolversAgree ==
    "isOpenAtTime" \in fn.done =>
        /\ "checkIfOpen" \in fn.done => fn.text.isOpen = fn.structured
        /\ "demo" \in fn.done => fn.demo.isOpen = fn.structured

-----------------------------------------------------------------------------
(* Properties of getPlannedDate (SpecPlan) *)

\* C19 as stated: for breakfast, lunch and dinner the planned date is today's
\* occurrence of the daypart's clock time (08:00, 12:00, 19:00), unless the
\* current time is past that clock time, and then the next day's; so it is
\* never earlier than the current time.
C19_NeverEarlierThanNow ==
    (fn.pc = "done" /\ fn.time \in {"breakfast", "lunch", "dinner"}) =>
        LET clock == CASE fn.time = "breakfast" -> 8 [] fn.time = "lunch" -> 12
                       [] OTHER -> 19
            nowMin == fn.now.hour * 60 + fn.now.minute
            planned == fn.result.day * 1440 + fn.result.hour * 60 + fn.result.minute
        IN /\ fn.result = [day |-> IF nowMin > clock * 60 THEN 1 ELSE 0,
                            hour |-> clock, minute |-> 0]
           /\ planned >= nowMin

\* C19 amended: for breakfast, lunch and dinner the planned date is today's
\* occurrence of the daypart's clock time (08:00, 12:00, 19:00), unless the
\* current hour has reached the hour two hours after it (10, 14, 21), and
\* then the next day's; so it is less than two hours earlier than the
\* current time, or later.
C19_RollsAfterTwoHours ==
    (fn.pc = "done" /\ fn.time \in {"breakfast", "lunch", "dinner"}) =>
        LET clock == CASE fn.time = "breakfast" -> 8 [] fn.time = "lunch" -> 12
                       [] OTHER -> 19
            nowMin == fn.now.hour * 60 + fn.now.minute
            planned == fn.result.day * 1440 + fn.result.hour * 60 + fn.result.minute
        IN /\ fn.result = [day |-> IF fn.now.hour >= clock + 2 THEN 1 ELSE 0,
                            hour |-> clock, minute |-> 0]
           /\ planned > nowMin - 120

\* Breakfast asked at 09:30 is planned for 08:00 of the same day, and dinner
\* asked at 21:00 for the next day.
C19_Witness ==
    /\ fn.pc = "done"
    /\ \/ /\ fn.time = "breakfast"
          /\ fn.now = [day |-> 0, hour |-> 9, minute |-> 30]
          /\ fn.result = [day |-> 0, hour |-> 8, minute |-> 0]
       \/ /\ fn.time = "dinner"
          /\ fn.now = [day |-> 0, hour |-> 21, minute |-> 0]
          /\ fn.result = [day |-> 1, hour |-> 19, minute |-> 0]

-----------------------------------------------------------------------------
(* Properties of the Yelp rate limit (SpecSeq) *)

\* C20: any two requests to Yelp, of whichever calls of
\* fetchAllPlatformReviews, start at least YELP_MIN_INTERVAL apart.
C20_YelpRequestsSpaced ==
    \A c, d \in 1..MaxCalls :
        (c # d /\ sq.calls[c].yelpAt # Undefined /\ sq.calls[d].yelpAt # Undefined) =>
            \/ sq.calls[c].yelpAt - sq.calls[d].yelpAt >= YELP_MIN_INTERVAL
            \/ sq.calls[d].yelpAt - sq.calls[c].yelpAt >= YELP_MIN_INTERVAL

\* C21: within one call of fetchAllPlatformReviews every adapter is invoked
\* concurrently: while the call sleeps for the Yelp rate limit or awaits an
\* adapter, all three adapters have been called; the sleep and the await of
\* one adapter hold back no other adapter.
C21_AdaptersInvokedConcurrently ==
    \A c \in 1..MaxCalls :
        LET at == sq.calls[c].pc
            invoked == CASE at = "delay" -> {}
                         [] at = "yelp" -> {"yelp"}
                         [] at = "foursquare" -> {"yelp", "foursquare"}
                         [] OTHER -> Api
        IN at \in {"delay"} \cup Api => invoked = Api

\* C29: at the step in which scrapeAllPlatforms settles, by returning or by
\* rejecting, every scraper whose browser was launched has been closed: its
\* browser and its page are null, whether its scrape gave a review, reported a
\* failure or threw, and whatever the other scrapers did, a failing close of
\* another scraper included.  It is asked of every scraper but one whose own
\* browser.close() failed.
C29_LaunchedScrapersClosedAtSettle ==
    [][ /\ sa \in {"idle", "pending"}
        /\ sa' \in {"returned", "rejected"}
        => \A p \in Platform :
              scr'[p].st # "rejected" => ~scr'[p].browser /\ ~scr'[p].page ]_vars

-----------------------------------------------------------------------------
(* Properties of the scoring and ranking functions (SpecScore) *)

\* C23: for every weighting strategy, also an unrecognised one,
\* calculateAggregatedScore of the empty list is 0, and calculateConfidence of
\* the empty list is 0.
C23_EmptyGivesZero ==
    /\ fn.pc = "returned"
    /\ fn.op \in {"score", "confidence"}
    /\ Len(fn.reviews) = 0
    => fn.result = 0

\* calculateAggregatedScore has returned 0 for the empty list under an
\* unrecognised strategy.
C23_Witness ==
    /\ fn.pc = "returned"
    /\ fn.op = "score"
    /\ Len(fn.reviews) = 0
    /\ fn.config.strategy = "other"
    /\ fn.result = 0

\* C24: bayesian_average shrinks each signal towards the prior first and
\* averages second: the score in hundredths is the arithmetic mean over the
\* signals of (C * prior + n_i * rating_i) / (C + n_i), rounded to two
\* decimals, and not one pooled quotient; so with prior 3.5 and C = 10 a lone
\* 5.0 signal with 2 reviews scores strictly closer to 3.5 than a lone 5.0
\* signal with 1000 reviews.  The mean is taken here in exact integer
\* arithmetic over a common denominator of the C + n_i.
C24_ShrinkThenAverage ==
    LET l == Len(fn.reviews)
        C == fn.config.bayesianMinReviews
        Den(i) == C + fn.reviews[i].reviewCount
        maxDen == CHOOSE d \in {Den(i) : i \in 1..l} : \A j \in 1..l : Den(j) <= d
        Common(k) == \A i \in 1..l : (maxDen * k) % Den(i) = 0
        common == maxDen * (CHOOSE k \in 1..100 : Common(k) /\ \A m \in 1..(k - 1) : ~Common(m))
        Term(i) == 10 * (C * fn.config.bayesianPrior
                         + fn.reviews[i].reviewCount * fn.reviews[i].rating) * (common \div Den(i))
        sum[i \in 0..l] == IF i = 0 THEN 0 ELSE sum[i - 1] + Term(i)
        Dist(x, y) == IF x >= y THEN x - y ELSE y - x
    IN  /\ fn.pc = "returned"
        /\ fn.op = "score"
        /\ fn.config.strategy = "bayesian_average"
        /\ l > 0
        => /\ (\A i \in 1..l : Den(i) > 0)
              => 2 * Dist(fn.result * l * common, sum[l]) <= l * common
           /\ /\ l = 1
              /\ fn.reviews[1].rating = 50
              /\ fn.reviews[1].reviewCount = 2
              /\ fn.config.bayesianPrior = 35
              /\ C = 10
              => Dist(fn.result, 350)
                     < Dist(CalculateAggregatedScore(
                                <<[fn.reviews[1] EXCEPT !.reviewCount = 1000]>>, fn.config), 350)

C24_Witness ==
    /\ fn.pc = "returned"
    /\ fn.op = "score"
    /\ fn.config.strategy = "bayesian_average"
    /\ fn.config.bayesianPrior = 35
    /\ fn.config.bayesianMinReviews = 10
    /\ Len(fn.reviews) = 2
    /\ fn.reviews[1].rating = 50
    /\ fn.reviews[1].reviewCount = 2
    /\ fn.reviews[2].rating = 50
    /\ fn.reviews[2].reviewCount = 1000
    /\ fn.result = 437

\* C25: calculateConfidence of a non-empty list lies within [0, 1] (0..100
\* hundredths), each factor being clamped to [0, 1] before the 0.3 / 0.4 / 0.3
\* combination: with the platform factor min(l / 4, 1) and the other two
\* factors between 0 and 1, the value lies between 0.3 * min(l / 4, 1) and
\* 0.3 * min(l / 4, 1) + 0.7, up to the rounding to two decimals.  The lists
\* include more than four signals, totals above 999 reviews and ratings of 0
\* and 5.0 together, where l / 4 and log10(total + 1) / 3 exceed 1 and
\* 1 - variance / 2 is below 0.
C25_ConfidenceWithinUnit ==
    LET l == Len(fn.reviews)
        quarters == IF l < 4 THEN l ELSE 4
    IN  /\ fn.pc = "returned"
        /\ fn.op = "confidence"
        /\ l > 0
        => /\ fn.result \in 0..100
           /\ 4 * fn.result >= 30 * quarters - 2
           /\ 4 * fn.result <= 30 * quarters + 280 + 2

\* Five signals, four of 5.0 stars and 1000 reviews and one of 0 stars: 5 / 4
\* is cut to 1, log10(4001) / 3 is cut to 1 and 1 - 4 / 2 is raised to 0, which
\* gives 0.3 + 0.4 + 0.
C25_Witness ==
    /\ fn.pc = "returned"
    /\ fn.op = "confidence"
    /\ Len(fn.reviews) = 5
    /\ \E k \in 1..5 :
          /\ fn.reviews[k].rating = 0
          /\ \A i \in (1..5) \ {k} :
                fn.reviews[i].rating = 50 /\ fn.reviews[i].reviewCount = 1000
    /\ fn.result = 70

\* C26: with the default threshold 4.8 and the default minimum of 500 reviews,
\* isExceptionalRestaurant is true exactly when the score is at least 4.8 with
\* at least 500 reviews in total, or at least 4.9 with at least 200, or the
\* name contains an award keyword in any case; a score of 4.9 with 250 reviews
\* is exceptional, a score of 4.7 with 10000 reviews and a plain name is not.
C26_ExceptionalExactly ==
    LET l == Len(fn.reviews)
        total[i \in 0..l] == IF i = 0 THEN 0 ELSE total[i - 1] + fn.reviews[i].reviewCount
    IN  /\ fn.pc = "returned"
        /\ fn.op = "exceptional"
        => /\ fn.result = TRUE
              <=> \/ fn.aggregatedScore >= 480 /\ total[l] >= 500
                  \/ fn.aggregatedScore >= 490 /\ total[l] >= 200
                  \/ fn.special
           /\ fn.aggregatedScore = 490 /\ total[l] = 250 => fn.result = TRUE
           /\ fn.aggregatedScore = 470 /\ total[l] = 10000 /\ ~fn.special
              => fn.result = FALSE

C26_Witness ==
    /\ fn.pc = "returned"
    /\ fn.op = "exceptional"
    /\ fn.aggregatedScore = 490
    /\ Len(fn.reviews) = 1
    /\ fn.reviews[1].reviewCount = 250
    /\ ~fn.special
    /\ fn.result = TRUE

\* C27: for a fixed rating in [0, 5], a fixed exceptional flag and a positive
\* maxTravelTimeMin, calculateValueScore does not increase with the travel
\* time: for 0 <= t1 <= t2, on either side of maxTravelTimeMin, the value at t1
\* is at least the value at t2.  The time factor is 1.0 at t = 0, 0.7 at
\* t = maxTravelTimeMin and never below 0.3, the values being rounded to two
\* decimals; the effective rating is the rating plus 0.2 for an exceptional
\* restaurant.
C27_ValueNonIncreasingInTime ==
    LET effective == fn.rating + (IF fn.isExceptional THEN 20 ELSE 0)
        Dist(x, y) == IF x >= y THEN x - y ELSE y - x
    IN  /\ fn.pc = "returned"
        /\ fn.op = "value"
        => /\ fn.times[1] <= fn.times[2]
           /\ fn.results[1] >= fn.results[2]
           /\ \A i \in 1..2 :
                 /\ fn.times[i] = 0 => fn.results[i] = effective
                 /\ fn.times[i] = fn.maxTravelTimeMin
                    => Dist(10 * fn.results[i], 7 * effective) <= 5
                 /\ 10 * fn.results[i] >= 3 * effective - 5
                 /\ fn.results[i] <= effective

C27_Witness ==
    /\ fn.pc = "returned"
    /\ fn.op = "value"
    /\ fn.rating = 455
    /\ ~fn.isExceptional
    /\ fn.maxTravelTimeMin = 10
    /\ fn.times = <<10, 11>>
    /\ fn.results[1] > fn.results[2]
    /\ fn.results[2] > 0

\* C28: the order of the signals is insignificant: calculateAggregatedScore and
\* calculateConfidence return the same value for every permutation of the
\* same signals, so the values do not depend on the order in which the
\* adapters complete and push their results.
C28_SignalOrderInsignificant ==
    LET l == Len(fn.reviews)
        Permuted(p) == SubSeq([i \in 1..l |-> fn.reviews[p[i]]], 1, l)
    IN  /\ fn.pc = "returned"
        /\ fn.op \in {"score", "confidence"}
        => \A p \in {q \in [1..l -> 1..l] : \A i, j \in 1..l : q[i] = q[j] => i = j} :
              fn.result = IF fn.op = "score"
                          THEN CalculateAggregatedScore(Permuted(p), fn.config)
                          ELSE CalculateConfidence(Permuted(p))

\* C30: for every strategy, every non-empty list of signals with ratings in
\* [0, 5] and review counts of 0 or more, and every configuration with a prior
\* in [0, 5], a pseudo-count of 0 or more and non-negative weights,
\* calculateAggregatedScore returns a number in [0, 5]: no zero total weight
\* and no zero denominator makes the result undefined.
C30_ScoreWellDefined ==
    /\ fn.pc = "returned"
    /\ fn.op = "score"
    /\ Len(fn.reviews) > 0
    => /\ fn.result # NaN
       /\ fn.result \in 0..500

====
